---------------------------- MODULE Spec2Model ----------------------------
(***************************************************************************)
(* butler-runner: the run-execution pipeline.                              *)
(*                                                                         *)
(*   logstream.Writer   (src/unnamed/part_002)          SpecSink           *)
(*   cancel.Watcher     (src/internal/cancel/watcher_test.go, l. 79-155)   *)
(*                                                      SpecWatcher        *)
(*   runner.RunManaged  (src/internal/runner/runner.go) with the executor  *)
(*   (src/internal/terraform/executor.go) and source preparation           *)
(*   (src/internal/source/clone.go)                     SpecRun            *)
(*                                                                         *)
(* Every specification constrains all variables; the variables of the      *)
(* components a specification does not exercise stay at their initial      *)
(* values.                                                                 *)
(***************************************************************************)
EXTENDS Integers, Sequences, FiniteSets, TLC

(***************************************************************************)
(* Bounds of the model.                                                    *)
(***************************************************************************)
\* Write calls the producer of SpecSink makes.
MaxWrites == 2
\* Timer ticks delivered to a sink's flush loop in SpecSink.
MaxTicks == 2
\* Polls the Cancellation Watcher makes.
MaxPolls == 4
\* The most entries a sink of SpecFlush has buffered when Close is called.
MaxBatch == 201
\* Lines the second sink of SpecChain is given.
MaxChainLines == 2
\* The longest line, in bytes, the sink of SpecTrunc has buffered.
MaxLineLen == 4100
\* Resource changes in a structured plan (SpecCounts).
MaxChanges == 2
\* Pieces of text in the output of an apply or destroy (SpecSummary).
MaxFileLen == 3
MaxTaskWrites == 1
MaxTaskTicks == 1
MaxPieces == 2
\* Polls the Cancellation Watcher makes during one RunManaged (SpecRun).
MaxRunPolls == 1
\* Lines the child processes of one RunManaged write to the sinks.
MaxRunLines == 2

(***************************************************************************)
(* Program constants.                                                      *)
(***************************************************************************)
\* flush: at most 100 entries per SendLogs call.
ChunkSize == 100
\* flush: content longer than this is cut and the marker appended.
MaxContentLen == 4096

Sinks == {"stdout", "stderr"}
FlushCallers == {"flushLoop", "closer"}

\* One byte of subprocess output: a line feed or an ordinary byte.
NL == "NL"
\* The byte chunks a Write may carry: a complete line, a partial line, a
\* bare line feed.
Chunks == {<<"x", NL>>, <<"x">>, <<NL>>}
\* Start sequences NewWriter is called with in SpecSink.
StartSeqs == {0, 3}

\* What one poll of the watcher can get: the request cannot be built, the
\* request fails, the body does not decode, or a decoded status.
PollErrors == {"reqErr", "netErr", "decodeErr"}
Statuses == {"running", "cancelled"}
Responses == PollErrors \cup Statuses

Min(a, b) == IF a < b THEN a ELSE b

\* The operations a fetched configuration may name: those Executor.Run knows
\* and one it does not.
Operations == {"plan", "apply", "destroy"}
ConfigOps == Operations \cup {"refresh"}
\* source.WorkingDirectory: empty, two levels down, or a directory the
\* repository does not hold.
ConfigSubdirs == {<< >>, <<"a", "b">>, <<"missing">>}
\* The bytes WriteTfvars may marshal (the input variables' values).
TfvarsData == {<<7, 8>>}
\* The environment variable the configuration may set, and how its entry in
\* execCfg.EnvVars looks: a string value, or a non-string value.
EnvKey == "TF_VAR_region"
ConfigEnvKinds == {"string", "nonstring"}
\* What cmd.Run of a started child can return when the child ends by itself:
\* exit 0, an ExitError with the code, or (exit 0 but) an output-copy error.
ExitOutcomes ==
  {[err |-> "none", code |-> 0], [err |-> "exit", code |-> 1],
   [err |-> "exit", code |-> 2], [err |-> "other", code |-> 0]}

VARIABLES
  \* ---- logstream.Writer, one per stream ----
  sinkState,   \* [Sinks -> {"none","open"}]: constructed by NewWriter or not
  startSeq,    \* NewWriter's startSeq argument
  seq,         \* w.seq
  buf,         \* w.buf: sequence of LogEntry
  sent,        \* the SendLogs calls made so far, in order
  \* ---- the goroutines of the one sink SpecSink exercises ----
  pipe,        \* bytes of the Write blocked in the io.Pipe (<<>>: none)
  pwClosed,    \* w.pw closed
  scanBuf,     \* bytes the Scanner has read and not yet returned as a token
  line,        \* readLines: the token scanner.Text() returned
  readerPc,    \* "scan" | "lock" | "append" | "done"
  done,        \* w.done closed
  mu,          \* w.mu: "none" or the goroutine holding it
  tickPending, \* a tick waits in flushTick.C
  tickStopped, \* flushTick.Stop() was called
  nTicks,      \* ticks delivered so far
  loopPc,      \* flushLoop: "select" | "flush" | "returned"
  closerPc,    \* Close: "idle" | "wait" | "stop" | "flush" | "returned"
  flushPc,     \* [FlushCallers -> "idle" | "lock" | "swap" | "send"]
  batch,       \* [FlushCallers -> the batch a flush detached]
  flushIdx,    \* [FlushCallers -> i of the chunk loop]
  prodPc,      \* the producer: "idle" | "writing"
  nWrites,     \* Write calls made
  writeErrs,   \* Write calls that returned an error
  \* ---- cancel.Watcher and the context it watches ----
  cancelCtxDone, \* the context passed to Start is done
  wPc,           \* Start: "idle" | "select" | "doneTaken" | "fire" | "returned"
  wTick,         \* a tick waits in ticker.C
  nPolls,        \* isCancelled calls made
  lastResp,      \* what the last isCancelled call got ("none": no call yet)
  firstCancelAt, \* the first poll that observed 'cancelled' (0: none)
  wCancelCalls,  \* calls of cancelFunc the watcher made
  \* ---- runner.RunManaged ----
  pc,          \* the statement RunManaged is at
  cfg,         \* execCfg: [op, subdir, data, env]
  fs,          \* the file system: path -> "dir" or a file's bytes
  workDir,     \* workDir returned by source.Prepare
  env,         \* the process environment: value of EnvKey ("unset": absent)
  env0,        \* the value EnvKey had when RunManaged was called
  reportFaults, \* whether the status and outputs callbacks can fail in this run
  envFaults,   \* whether os.Setenv can fail in this run
  parse,       \* the delta extraction under way: its input, position and counters
  hostOut,     \* SpecTee: the host-side writer each line of a child went to
  tracked,     \* SpecTasks: the sink whose goroutines are followed ("none": neither)
  envVarKeys,  \* envVarKeys: the keys RunManaged set
  defers,      \* the deferred calls, in the order they were registered
  statusLog,   \* the ReportStatus / ReportOutputs calls made so far
  retval,      \* "none" | "nil" | "error" | "panic"
  child,       \* the running child process ("none" or its subcommand)
  \* the running child was started after its context was done
  cmdRes,      \* what the last cmd.Run returned: [err, code]
  result,      \* Executor.Run's *RunResult ("nil": none)
  runErr,      \* Executor.Run's error: TRUE when non-nil
  runLog,      \* the log entries of the run, in the order they were created
  cleanupLog   \* the cleanup operations performed, in order

sinkData == <<sinkState, startSeq, seq, buf, sent>>
sinkProc == <<pipe, pwClosed, scanBuf, line, readerPc, done, mu, tickPending,
              tickStopped, nTicks, loopPc, closerPc, flushPc, batch, flushIdx,
              prodPc, nWrites, writeErrs>>
watcherVars == <<cancelCtxDone, wPc, wTick, nPolls, lastResp, firstCancelAt,
                 wCancelCalls>>
runVars == <<pc, cfg, fs, workDir, env, env0, reportFaults, envFaults, parse, hostOut, tracked, envVarKeys, defers, statusLog,
             retval, child, cmdRes, result, runErr, runLog,
             cleanupLog>>
nonSink == <<watcherVars, runVars>>
nonWatcher == <<sinkData, sinkProc, runVars>>
vars == <<sinkData, sinkProc, watcherVars, runVars>>

\* The system's temporary directory, and what exists before a run.
TempRoot == <<"tmp">>
FsInit == [q \in {TempRoot} |-> "dir"]
NoCfg == [op |-> "none", subdir |-> << >>, data |-> << >>, env |-> "absent"]
\* The nil *ExecutionResult.
NilResult ==
  [nil |-> TRUE, ExitCode |-> 0, PlanJSON |-> "", Deltas |-> "zero", Outputs |-> "nil"]

NoCmd == [err |-> "none", code |-> 0]

\* No delta extraction under way.
NoParse == [fn |-> "none"]

\* RunManaged not called.
RunIdle ==
  /\ parse = NoParse /\ hostOut = << >> /\ tracked = "none" /\ envFaults = FALSE
  /\ pc = "idle" /\ cfg = NoCfg /\ fs = FsInit /\ workDir = << >>
  /\ env = "unset" /\ env0 = "unset" /\ reportFaults = FALSE
  /\ envVarKeys = << >> /\ defers = << >>
  /\ statusLog = << >> /\ retval = "none" /\ child = "none"
  /\ cmdRes = NoCmd /\ result = NilResult /\ runErr = FALSE
  /\ runLog = << >> /\ cleanupLog = << >>

\* The watcher before `go watcher.Start(...)`.
WatcherIdle ==
  /\ cancelCtxDone = FALSE /\ wPc = "idle" /\ wTick = FALSE /\ nPolls = 0
  /\ lastResp = "none" /\ firstCancelAt = 0 /\ wCancelCalls = 0

(***************************************************************************)
(* logstream.Writer                                                        *)
(***************************************************************************)
LogEntry(n, s, c) == [Sequence |-> n, Stream |-> s, Content |-> c]

\* The marker flush appends to a cut line, one element per byte.
TruncMarker == <<".", ".", ".", " ", "(", "t", "r", "u", "n", "c", "a", "t", "e", "d", ")">>

\* The truncation cutting a line of exactly the maximum length too.
Truncate_AtLimit(c) ==
  IF Len(c) >= MaxContentLen THEN SubSeq(c, 1, MaxContentLen) \o TruncMarker ELSE c

\* flush, the truncation loop: batch[i].Content[:4096] + "... (truncated)".
Truncate(c) ==
  IF Len(c) > MaxContentLen THEN SubSeq(c, 1, MaxContentLen) \o TruncMarker ELSE c

TruncateBatch(b) ==
  [i \in 1..Len(b) |-> [b[i] EXCEPT !.Content = Truncate(b[i].Content)]]

\* Index of the first line feed of a byte sequence, 0 when there is none.
FirstNL(bs) ==
  IF \E i \in 1..Len(bs) : bs[i] = NL
  THEN CHOOSE i \in 1..Len(bs) : bs[i] = NL /\ \A j \in 1..(i - 1) : bs[j] # NL
  ELSE 0

\* NewWriter: the fields of a fresh Writer for stream s.
NewWriterData(s, start) ==
  /\ sinkState' = [sinkState EXCEPT ![s] = "open"]
  /\ startSeq' = [startSeq EXCEPT ![s] = start]
  /\ seq' = [seq EXCEPT ![s] = start]
  /\ buf' = [buf EXCEPT ![s] = <<>>]

\* Sequence answering with the number the sink was constructed with.
Sequence_Start(s) == startSeq[s]

\* Writer.Sequence.
Sequence(s) == seq[s]

\* The entry numbered before w.seq is advanced.
AppendLine_StaleSeq(s, c) ==
  /\ seq' = [seq EXCEPT ![s] = seq[s] + 1]
  /\ buf' = [buf EXCEPT ![s] = Append(buf[s], LogEntry(seq[s], s, c))]

\* readLines, the body of the scan loop under the lock: w.seq++ and the append.
AppendLine(s, c) ==
  /\ seq' = [seq EXCEPT ![s] = seq[s] + 1]
  /\ buf' = [buf EXCEPT ![s] = Append(buf[s], LogEntry(seq[s] + 1, s, c))]

\* Writer.Write on an open pipe: the bytes wait until the reader takes them.
ProducerWrite(s) ==
  /\ prodPc = "idle" /\ nWrites < MaxWrites /\ ~pwClosed
  /\ \E c \in Chunks : pipe' = c
  /\ prodPc' = "writing"
  /\ nWrites' = nWrites + 1
  /\ UNCHANGED <<nonSink, sinkData, pwClosed, scanBuf, line, readerPc, done, mu,
                 tickPending, tickStopped, nTicks, loopPc, closerPc, flushPc,
                 batch, flushIdx, writeErrs>>

\* Writer.Write on a closed pipe, or a blocked Write when the pipe is closed:
\* io.ErrClosedPipe, the bytes are dropped.
ProducerWriteClosed(s) ==
  /\ pwClosed
  /\ \/ prodPc = "idle" /\ nWrites < MaxWrites /\ nWrites' = nWrites + 1
     \/ prodPc = "writing" /\ nWrites' = nWrites
  /\ pipe' = <<>>
  /\ prodPc' = "idle"
  /\ writeErrs' = writeErrs + 1
  /\ UNCHANGED <<nonSink, sinkData, pwClosed, scanBuf, line, readerPc, done, mu,
                 tickPending, tickStopped, nTicks, loopPc, closerPc, flushPc,
                 batch, flushIdx>>

\* scanner.Scan with no complete line buffered: it reads the blocked Write's
\* bytes from the pipe, and that Write returns.
ReaderRead(s) ==
  /\ readerPc = "scan" /\ FirstNL(scanBuf) = 0
  /\ ~pwClosed /\ prodPc = "writing"
  /\ scanBuf' = scanBuf \o pipe
  /\ pipe' = <<>>
  /\ prodPc' = "idle"
  /\ UNCHANGED <<nonSink, sinkData, pwClosed, line, readerPc, done, mu, tickPending,
                 tickStopped, nTicks, loopPc, closerPc, flushPc, batch,
                 flushIdx, nWrites, writeErrs>>

\* scanner.Scan returns a line: the bytes before the first line feed, or at
\* end of input the non-empty rest.
ReaderToken(s) ==
  /\ readerPc = "scan"
  /\ \/ /\ FirstNL(scanBuf) > 0
        /\ line' = SubSeq(scanBuf, 1, FirstNL(scanBuf) - 1)
        /\ scanBuf' = SubSeq(scanBuf, FirstNL(scanBuf) + 1, Len(scanBuf))
     \/ /\ FirstNL(scanBuf) = 0 /\ pwClosed /\ scanBuf # <<>>
        /\ line' = scanBuf
        /\ scanBuf' = <<>>
  /\ readerPc' = "lock"
  /\ UNCHANGED <<nonSink, sinkData, pipe, pwClosed, done, mu, tickPending, tickStopped,
                 nTicks, loopPc, closerPc, flushPc, batch, flushIdx, prodPc,
                 nWrites, writeErrs>>

\* readLines: w.mu.Lock().
ReaderLock(s) ==
  /\ readerPc = "lock" /\ mu = "none"
  /\ mu' = "reader"
  /\ readerPc' = "append"
  /\ UNCHANGED <<nonSink, sinkData, pipe, pwClosed, scanBuf, line, done, tickPending,
                 tickStopped, nTicks, loopPc, closerPc, flushPc, batch,
                 flushIdx, prodPc, nWrites, writeErrs>>

\* readLines: w.seq++, the append, w.mu.Unlock().
ReaderAppend(s) ==
  /\ readerPc = "append"
  /\ AppendLine(s, line)
  /\ mu' = "none"
  /\ readerPc' = "scan"
  /\ UNCHANGED <<nonSink, sinkState, startSeq, sent, pipe, pwClosed, scanBuf, line,
                 done, tickPending, tickStopped, nTicks, loopPc, closerPc,
                 flushPc, batch, flushIdx, prodPc, nWrites, writeErrs>>

\* readLines: scanner.Scan returns false at end of input; defer close(w.done).
ReaderEOF(s) ==
  /\ readerPc = "scan" /\ pwClosed /\ scanBuf = <<>>
  /\ readerPc' = "done"
  /\ done' = TRUE
  /\ UNCHANGED <<nonSink, sinkData, pipe, pwClosed, scanBuf, line, mu, tickPending,
                 tickStopped, nTicks, loopPc, closerPc, flushPc, batch,
                 flushIdx, prodPc, nWrites, writeErrs>>

\* The ticker delivers a tick into flushTick.C (capacity 1).
Tick(s) ==
  /\ ~tickStopped /\ ~tickPending /\ nTicks < MaxTicks
  /\ tickPending' = TRUE
  /\ nTicks' = nTicks + 1
  /\ UNCHANGED <<nonSink, sinkData, pipe, pwClosed, scanBuf, line, readerPc, done, mu,
                 tickStopped, loopPc, closerPc, flushPc, batch, flushIdx,
                 prodPc, nWrites, writeErrs>>

\* flushLoop: the select takes the tick and calls flush.
LoopTick(s) ==
  /\ loopPc = "select" /\ tickPending
  /\ tickPending' = FALSE
  /\ loopPc' = "flush"
  /\ flushPc' = [flushPc EXCEPT !["flushLoop"] = "lock"]
  /\ UNCHANGED <<nonSink, sinkData, pipe, pwClosed, scanBuf, line, readerPc, done, mu,
                 tickStopped, nTicks, closerPc, batch, flushIdx, prodPc,
                 nWrites, writeErrs>>

\* flushLoop: the select takes w.done and returns.
LoopDone(s) ==
  /\ loopPc = "select" /\ done
  /\ loopPc' = "returned"
  /\ UNCHANGED <<nonSink, sinkData, pipe, pwClosed, scanBuf, line, readerPc, done, mu,
                 tickPending, tickStopped, nTicks, closerPc, flushPc, batch,
                 flushIdx, prodPc, nWrites, writeErrs>>

\* Where a caller of flush continues when flush returns.
LoopPcAfterFlush(p) == IF p = "flushLoop" THEN "select" ELSE loopPc
CloserPcAfterFlush(p) == IF p = "closer" THEN "returned" ELSE closerPc

\* flush: w.mu.Lock().
FlushLock(s, p) ==
  /\ flushPc[p] = "lock" /\ mu = "none"
  /\ mu' = p
  /\ flushPc' = [flushPc EXCEPT ![p] = "swap"]
  /\ UNCHANGED <<nonSink, sinkData, pipe, pwClosed, scanBuf, line, readerPc, done,
                 tickPending, tickStopped, nTicks, loopPc, closerPc, batch,
                 flushIdx, prodPc, nWrites, writeErrs>>

\* flush leaving the buffer in place when it takes the batch.
Detached_Kept(b) == b

\* flush: w.buf = nil.
Detached(b) == << >>

\* flush keeping the lock when it has detached a batch.
MuAfterSwap_HeldForSend(p, empty) == IF empty THEN "none" ELSE p

\* flush: w.mu.Unlock() on both branches, before the truncation and chunk
\* loops.
MuAfterSwap(p, empty) == "none"

\* flush under the lock: return on an empty buffer, else detach the buffer;
\* w.mu.Unlock(); then the truncation loop over the detached batch.
FlushSwap(s, p) ==
  /\ flushPc[p] = "swap"
  /\ mu' = MuAfterSwap(p, Len(buf[s]) = 0)
  /\ IF Len(buf[s]) = 0
     THEN /\ flushPc' = [flushPc EXCEPT ![p] = "idle"]
          /\ loopPc' = LoopPcAfterFlush(p)
          /\ closerPc' = CloserPcAfterFlush(p)
          /\ UNCHANGED <<buf, batch, flushIdx>>
     ELSE /\ batch' = [batch EXCEPT ![p] = TruncateBatch(buf[s])]
          /\ buf' = [buf EXCEPT ![s] = Detached(buf[s])]
          /\ flushIdx' = [flushIdx EXCEPT ![p] = 0]
          /\ flushPc' = [flushPc EXCEPT ![p] = "send"]
          /\ UNCHANGED <<loopPc, closerPc>>
  /\ UNCHANGED <<nonSink, sinkState, startSeq, seq, sent, pipe, pwClosed, scanBuf, line,
                 readerPc, done, tickPending, tickStopped, nTicks, prodPc,
                 nWrites, writeErrs>>

\* The chunk loop sending a failed chunk again.
NextIdx_Retry(i, ok) == IF ok THEN i + ChunkSize ELSE i

\* flush, the chunk loop: i += 100, whatever SendLogs returned.
NextIdx(i, ok) == i + ChunkSize

\* A chunk whose SendLogs failed put back in front of the buffer.
BufAfterSend_Requeue(b, chunk, ok) == IF ok THEN b ELSE chunk \o b

\* flush, the chunk loop's error branch: logger.Warn only; the buffer is not
\* touched.
BufAfterSend(b, chunk, ok) == b

\* flush, one round of the chunk loop: SendLogs(batch[i:end]), which succeeds
\* or fails; a failure is logged only.
FlushSend(s, p) ==
  /\ flushPc[p] = "send"
  /\ LET i == flushIdx[p]
         end == Min(i + ChunkSize, Len(batch[p]))
     IN \E ok \in BOOLEAN :
          /\ sent' = Append(sent, [stream |-> s, by |-> p, ok |-> ok,
                                   entries |-> SubSeq(batch[p], i + 1, end)])
          /\ buf' = [buf EXCEPT ![s] =
                       BufAfterSend(buf[s], SubSeq(batch[p], i + 1, end), ok)]
          /\ IF NextIdx(i, ok) < Len(batch[p])
             THEN /\ flushIdx' = [flushIdx EXCEPT ![p] = NextIdx(i, ok)]
                  /\ UNCHANGED <<flushPc, batch, loopPc, closerPc>>
             ELSE /\ flushPc' = [flushPc EXCEPT ![p] = "idle"]
                  /\ batch' = [batch EXCEPT ![p] = <<>>]
                  /\ flushIdx' = [flushIdx EXCEPT ![p] = 0]
                  /\ loopPc' = LoopPcAfterFlush(p)
                  /\ closerPc' = CloserPcAfterFlush(p)
  /\ UNCHANGED <<nonSink, sinkState, startSeq, seq, pipe, pwClosed, scanBuf, line,
                 readerPc, done, mu, tickPending, tickStopped, nTicks, prodPc,
                 nWrites, writeErrs>>

\* Close: w.pw.Close().
CloseBegin(s) ==
  /\ closerPc = "idle"
  /\ pwClosed' = TRUE
  /\ closerPc' = "wait"
  /\ UNCHANGED <<nonSink, sinkData, pipe, scanBuf, line, readerPc, done, mu,
                 tickPending, tickStopped, nTicks, loopPc, flushPc, batch,
                 flushIdx, prodPc, nWrites, writeErrs>>

\* Close going on without the line reader having finished.
ReaderFinished_NoWait == TRUE

\* The receive from w.done returns once readLines has closed the channel.
ReaderFinished == done

\* Close: <-w.done.
CloseWait(s) ==
  /\ closerPc = "wait" /\ ReaderFinished
  /\ closerPc' = "stop"
  /\ UNCHANGED <<nonSink, sinkData, pipe, pwClosed, scanBuf, line, readerPc, done, mu,
                 tickPending, tickStopped, nTicks, loopPc, flushPc, batch,
                 flushIdx, prodPc, nWrites, writeErrs>>

\* What Close does once the reader is done: w.flushTick.Stop(), then it
\* calls flush.
CloseStop(s) ==
  /\ closerPc = "stop"
  /\ tickStopped' = TRUE
  /\ closerPc' = "flush"
  /\ flushPc' = [flushPc EXCEPT !["closer"] = "lock"]
  /\ UNCHANGED <<nonSink, sinkData, pipe, pwClosed, scanBuf, line, readerPc, done, mu,
                 tickPending, nTicks, loopPc, batch, flushIdx, prodPc, nWrites,
                 writeErrs>>

\* The goroutines of a sink, as NewWriter starts them.
SinkProcInit ==
  /\ pipe = <<>> /\ pwClosed = FALSE /\ scanBuf = <<>> /\ line = <<>>
  /\ readerPc = "scan" /\ done = FALSE /\ mu = "none"
  /\ tickPending = FALSE /\ tickStopped = FALSE /\ nTicks = 0
  /\ loopPc = "select" /\ closerPc = "idle"
  /\ flushPc = [p \in FlushCallers |-> "idle"]
  /\ batch = [p \in FlushCallers |-> <<>>]
  /\ flushIdx = [p \in FlushCallers |-> 0]
  /\ prodPc = "idle" /\ nWrites = 0 /\ writeErrs = 0

\* SpecSink: one Writer, NewWriter(ctx, cb, stream, logger, interval, start),
\* with its producer, line reader, flush loop and one Close.
SinkInit ==
  /\ \E s \in Sinks, start \in StartSeqs :
       /\ sinkState = [t \in Sinks |-> IF t = s THEN "open" ELSE "none"]
       /\ startSeq = [t \in Sinks |-> IF t = s THEN start ELSE 0]
       /\ seq = [t \in Sinks |-> IF t = s THEN start ELSE 0]
  /\ buf = [t \in Sinks |-> <<>>]
  /\ sent = <<>>
  /\ SinkProcInit
  /\ WatcherIdle
  /\ RunIdle

\* The sink SpecSink exercises.
Open(s) == sinkState[s] = "open"

SinkNext ==
  \/ \E s \in Sinks : Open(s) /\ ProducerWrite(s)
  \/ \E s \in Sinks : Open(s) /\ ProducerWriteClosed(s)
  \/ \E s \in Sinks : Open(s) /\ ReaderRead(s)
  \/ \E s \in Sinks : Open(s) /\ ReaderToken(s)
  \/ \E s \in Sinks : Open(s) /\ ReaderLock(s)
  \/ \E s \in Sinks : Open(s) /\ ReaderAppend(s)
  \/ \E s \in Sinks : Open(s) /\ ReaderEOF(s)
  \/ \E s \in Sinks : Open(s) /\ Tick(s)
  \/ \E s \in Sinks : Open(s) /\ LoopTick(s)
  \/ \E s \in Sinks : Open(s) /\ LoopDone(s)
  \/ \E s \in Sinks, p \in FlushCallers : Open(s) /\ FlushLock(s, p)
  \/ \E s \in Sinks, p \in FlushCallers : Open(s) /\ FlushSwap(s, p)
  \/ \E s \in Sinks, p \in FlushCallers : Open(s) /\ FlushSend(s, p)
  \/ \E s \in Sinks : Open(s) /\ CloseBegin(s)
  \/ \E s \in Sinks : Open(s) /\ CloseWait(s)
  \/ \E s \in Sinks : Open(s) /\ CloseStop(s)

SpecSink == SinkInit /\ [][SinkNext]_vars

\* SpecFlush: a sink whose reader has buffered k entries, no Write being
\* under way or to come, with its flush loop, its timer and one Close.
BatchLens == {1, ChunkSize - 1, ChunkSize, ChunkSize + 1, 2 * ChunkSize, MaxBatch}

FlushInit ==
  /\ \E s \in Sinks, start \in StartSeqs, k \in BatchLens :
       /\ sinkState = [t \in Sinks |-> IF t = s THEN "open" ELSE "none"]
       /\ startSeq = [t \in Sinks |-> IF t = s THEN start ELSE 0]
       /\ seq = [t \in Sinks |-> IF t = s THEN start + k ELSE 0]
       /\ buf = [t \in Sinks |->
                  IF t = s THEN [i \in 1..k |-> LogEntry(start + i, s, <<"x">>)]
                  ELSE <<>>]
  /\ sent = <<>>
  /\ pipe = <<>> /\ pwClosed = FALSE /\ scanBuf = <<>> /\ line = <<>>
  /\ readerPc = "scan" /\ done = FALSE /\ mu = "none"
  /\ tickPending = FALSE /\ tickStopped = FALSE /\ nTicks = 0
  /\ loopPc = "select" /\ closerPc = "idle"
  /\ flushPc = [p \in FlushCallers |-> "idle"]
  /\ batch = [p \in FlushCallers |-> <<>>]
  /\ flushIdx = [p \in FlushCallers |-> 0]
  /\ prodPc = "idle" /\ nWrites = MaxWrites /\ writeErrs = 0
  /\ WatcherIdle
  /\ RunIdle

FlushNext ==
  \/ \E s \in Sinks : Open(s) /\ ReaderEOF(s)
  \/ \E s \in Sinks : Open(s) /\ Tick(s)
  \/ \E s \in Sinks : Open(s) /\ LoopTick(s)
  \/ \E s \in Sinks : Open(s) /\ LoopDone(s)
  \/ \E s \in Sinks, p \in FlushCallers : Open(s) /\ FlushLock(s, p)
  \/ \E s \in Sinks, p \in FlushCallers : Open(s) /\ FlushSwap(s, p)
  \/ \E s \in Sinks, p \in FlushCallers : Open(s) /\ FlushSend(s, p)
  \/ \E s \in Sinks : Open(s) /\ CloseBegin(s)
  \/ \E s \in Sinks : Open(s) /\ CloseWait(s)
  \/ \E s \in Sinks : Open(s) /\ CloseStop(s)

SpecFlush == FlushInit /\ [][FlushNext]_vars

\* SpecTrunc: a sink whose reader has just appended one line of n bytes, with
\* its flush loop, its timer and one Close.
LineLens ==
  {0, 1, MaxContentLen - 1, MaxContentLen, MaxContentLen + 1, MaxLineLen}

LineBytes == <<"a", "b", "c">>

LineOf(n) == [i \in 1..n |-> LineBytes[(i % Len(LineBytes)) + 1]]

TruncInit ==
  /\ \E s \in Sinks, start \in StartSeqs, n \in LineLens :
       /\ sinkState = [t \in Sinks |-> IF t = s THEN "open" ELSE "none"]
       /\ startSeq = [t \in Sinks |-> IF t = s THEN start ELSE 0]
       /\ seq = [t \in Sinks |-> IF t = s THEN start + 1 ELSE 0]
       /\ line = LineOf(n)
       /\ buf = [t \in Sinks |->
                  IF t = s THEN <<LogEntry(start + 1, s, LineOf(n))>> ELSE <<>>]
  /\ sent = <<>>
  /\ pipe = <<>> /\ pwClosed = FALSE /\ scanBuf = <<>>
  /\ readerPc = "scan" /\ done = FALSE /\ mu = "none"
  /\ tickPending = FALSE /\ tickStopped = FALSE /\ nTicks = 0
  /\ loopPc = "select" /\ closerPc = "idle"
  /\ flushPc = [p \in FlushCallers |-> "idle"]
  /\ batch = [p \in FlushCallers |-> <<>>]
  /\ flushIdx = [p \in FlushCallers |-> 0]
  /\ prodPc = "idle" /\ nWrites = MaxWrites /\ writeErrs = 0
  /\ WatcherIdle
  /\ RunIdle

SpecTrunc == TruncInit /\ [][FlushNext]_vars

\* SpecChain: a first sink with its producer, line reader, flush loop and one
\* Close, and a second sink constructed with the first's Sequence() once the
\* first's line reader has finished, so that the value is the final one.
ChainFirst == "stdout"
ChainSecond == "stderr"

ChainInit ==
  /\ \E start \in StartSeqs :
       /\ startSeq = [t \in Sinks |-> IF t = ChainFirst THEN start ELSE 0]
       /\ seq = [t \in Sinks |-> IF t = ChainFirst THEN start ELSE 0]
  /\ sinkState = [t \in Sinks |-> IF t = ChainFirst THEN "open" ELSE "none"]
  /\ buf = [t \in Sinks |-> <<>>]
  /\ sent = <<>>
  /\ SinkProcInit
  /\ WatcherIdle
  /\ RunIdle

\* NewWriter(ctx, cb, second, logger, interval, first.Sequence()).
SeedSecond ==
  /\ sinkState[ChainSecond] = "none"
  /\ done
  /\ NewWriterData(ChainSecond, Sequence(ChainFirst))
  /\ UNCHANGED <<nonSink, sent, sinkProc>>

\* A line written to the second sink reaches its line reader.
SecondLine ==
  /\ sinkState[ChainSecond] = "open"
  /\ seq[ChainSecond] - startSeq[ChainSecond] < MaxChainLines
  /\ AppendLine(ChainSecond, <<"x">>)
  /\ UNCHANGED <<nonSink, sinkState, startSeq, sent, sinkProc>>

ChainNext ==
  \/ ProducerWrite(ChainFirst)
  \/ ProducerWriteClosed(ChainFirst)
  \/ ReaderRead(ChainFirst)
  \/ ReaderToken(ChainFirst)
  \/ ReaderLock(ChainFirst)
  \/ ReaderAppend(ChainFirst)
  \/ ReaderEOF(ChainFirst)
  \/ Tick(ChainFirst)
  \/ LoopTick(ChainFirst)
  \/ LoopDone(ChainFirst)
  \/ \E p \in FlushCallers : FlushLock(ChainFirst, p)
  \/ \E p \in FlushCallers : FlushSwap(ChainFirst, p)
  \/ \E p \in FlushCallers : FlushSend(ChainFirst, p)
  \/ CloseBegin(ChainFirst)
  \/ CloseWait(ChainFirst)
  \/ CloseStop(ChainFirst)
  \/ SeedSecond
  \/ SecondLine

SpecChain == ChainInit /\ [][ChainNext]_vars

\* SpecScan: one Writer whose producer writes lines around the Scanner's
\* limit, scanner.Buffer(make([]byte, 0, 64*1024), 1024*1024). Bytes are
\* kept as runs: 0 is a line feed, n > 0 stands for n other bytes.
MaxScanTokenSize == 1048576
LF == 0

RECURSIVE Weight(_)
Weight(bs) ==
  IF bs = << >> THEN 0
  ELSE (IF Head(bs) = LF THEN 1 ELSE Head(bs)) + Weight(Tail(bs))

\* bs followed by cs, two adjoining runs made one.
Joined(bs, cs) ==
  IF bs # << >> /\ cs # << >> /\ bs[Len(bs)] # LF /\ Head(cs) # LF
  THEN SubSeq(bs, 1, Len(bs) - 1) \o <<bs[Len(bs)] + Head(cs)>> \o Tail(cs)
  ELSE bs \o cs

\* The first k bytes of bs, and bs without them.
RECURSIVE TakeBytes(_, _)
TakeBytes(bs, k) ==
  IF k = 0 \/ bs = << >> THEN << >>
  ELSE IF Head(bs) = LF THEN <<LF>> \o TakeBytes(Tail(bs), k - 1)
  ELSE IF Head(bs) <= k THEN <<Head(bs)>> \o TakeBytes(Tail(bs), k - Head(bs))
  ELSE <<k>>
RECURSIVE DropBytes(_, _)
DropBytes(bs, k) ==
  IF k = 0 \/ bs = << >> THEN bs
  ELSE IF Head(bs) = LF THEN DropBytes(Tail(bs), k - 1)
  ELSE IF Head(bs) <= k THEN DropBytes(Tail(bs), k - Head(bs))
  ELSE <<Head(bs) - k>> \o Tail(bs)

\* Index of the first line feed, 0 when there is none.
FirstLF(bs) ==
  IF \E i \in 1..Len(bs) : bs[i] = LF
  THEN CHOOSE i \in 1..Len(bs) : bs[i] = LF /\ \A j \in 1..(i - 1) : bs[j] # LF
  ELSE 0

\* What one Write can carry: a short line, a part of a line, a line feed,
\* the longest line the buffer holds with its line feed, a line one byte
\* longer, and a part of a line larger than the buffer.
ScanChunks ==
  {<<1, LF>>, <<1>>, <<LF>>, <<MaxScanTokenSize - 1, LF>>,
   <<MaxScanTokenSize, LF>>, <<MaxScanTokenSize + 1>>}

\* Writer.Write on an open pipe.
ScanWrite(s) ==
  /\ prodPc = "idle" /\ nWrites < MaxWrites /\ ~pwClosed
  /\ \E c \in ScanChunks : pipe' = c
  /\ prodPc' = "writing"
  /\ nWrites' = nWrites + 1
  /\ UNCHANGED <<nonSink, sinkData, pwClosed, scanBuf, line, readerPc, done, mu,
                 tickPending, tickStopped, nTicks, loopPc, closerPc, flushPc,
                 batch, flushIdx, writeErrs>>

\* scanner.Scan: the buffer is full, at its maximum size, and holds no
\* complete line (bufio.ErrTooLong).
ScanBufferFull(bs) == FirstLF(bs) = 0 /\ Weight(bs) >= MaxScanTokenSize

\* scanner.Scan with no complete line buffered and room in the buffer: it
\* reads from the pipe what fits; the blocked Write returns once all its
\* bytes were read.
ScanRead(s) ==
  /\ readerPc = "scan" /\ FirstLF(scanBuf) = 0 /\ ~ScanBufferFull(scanBuf)
  /\ ~pwClosed /\ prodPc = "writing"
  /\ LET k == Min(MaxScanTokenSize - Weight(scanBuf), Weight(pipe))
     IN /\ scanBuf' = Joined(scanBuf, TakeBytes(pipe, k))
        /\ pipe' = DropBytes(pipe, k)
        /\ prodPc' = IF k = Weight(pipe) THEN "idle" ELSE prodPc
  /\ UNCHANGED <<nonSink, sinkData, pwClosed, line, readerPc, done, mu, tickPending,
                 tickStopped, nTicks, loopPc, closerPc, flushPc, batch,
                 flushIdx, nWrites, writeErrs>>

\* scanner.Scan returns a line: the bytes before the first line feed, or at
\* end of input the non-empty rest.
ScanToken(s) ==
  /\ readerPc = "scan"
  /\ \/ /\ FirstLF(scanBuf) > 0
        /\ line' = SubSeq(scanBuf, 1, FirstLF(scanBuf) - 1)
        /\ scanBuf' = SubSeq(scanBuf, FirstLF(scanBuf) + 1, Len(scanBuf))
     \/ /\ FirstLF(scanBuf) = 0 /\ ~ScanBufferFull(scanBuf)
        /\ pwClosed /\ scanBuf # <<>>
        /\ line' = scanBuf
        /\ scanBuf' = <<>>
  /\ readerPc' = "lock"
  /\ UNCHANGED <<nonSink, sinkData, pipe, pwClosed, done, mu, tickPending, tickStopped,
                 nTicks, loopPc, closerPc, flushPc, batch, flushIdx, prodPc,
                 nWrites, writeErrs>>

\* scanner.Scan returns false with bufio.ErrTooLong: the for loop of
\* readLines ends, defer close(w.done); nothing reads the pipe any more.
ScanTooLong(s) ==
  /\ readerPc = "scan" /\ ScanBufferFull(scanBuf)
  /\ readerPc' = "done"
  /\ done' = TRUE
  /\ UNCHANGED <<nonSink, sinkData, pipe, pwClosed, scanBuf, line, mu, tickPending,
                 tickStopped, nTicks, loopPc, closerPc, flushPc, batch,
                 flushIdx, prodPc, nWrites, writeErrs>>

\* The line reader of the sink.
ScanReader(s) ==
  \/ ScanRead(s)
  \/ ScanToken(s)
  \/ ScanTooLong(s)
  \/ ReaderLock(s)
  \/ ReaderAppend(s)
  \/ ReaderEOF(s)

ScanNext ==
  \/ \E s \in Sinks : Open(s) /\ ScanWrite(s)
  \/ \E s \in Sinks : Open(s) /\ ProducerWriteClosed(s)
  \/ \E s \in Sinks : Open(s) /\ ScanRead(s)
  \/ \E s \in Sinks : Open(s) /\ ScanToken(s)
  \/ \E s \in Sinks : Open(s) /\ ScanTooLong(s)
  \/ \E s \in Sinks : Open(s) /\ ReaderLock(s)
  \/ \E s \in Sinks : Open(s) /\ ReaderAppend(s)
  \/ \E s \in Sinks : Open(s) /\ ReaderEOF(s)
  \/ \E s \in Sinks : Open(s) /\ CloseBegin(s)
  \/ \E s \in Sinks : Open(s) /\ CloseWait(s)

\* The line reader is scheduled fairly, and a Write on a closed pipe returns.
SpecScan ==
  /\ SinkInit /\ [][ScanNext]_vars
  /\ WF_vars(\E s \in Sinks : Open(s) /\ ScanReader(s))
  /\ WF_vars(\E s \in Sinks : Open(s) /\ ProducerWriteClosed(s))

(***************************************************************************)
(* cancel.Watcher                                                          *)
(***************************************************************************)
\* isCancelled with its error returns answering true.
IsCancelled_ErrorFires(r) ==
  IF r \in PollErrors THEN TRUE ELSE r = "cancelled"

\* isCancelled: false on every error, else result.Status == "cancelled".
IsCancelled(r) ==
  IF r \in PollErrors THEN FALSE ELSE r = "cancelled"

\* What isCancelled(ctx) gets: the request is bound to ctx, so with ctx done
\* http.DefaultClient.Do fails; otherwise any response.
PollResponses(ctxDone) == IF ctxDone THEN {"netErr"} ELSE Responses

\* Start going on selecting after cancelFunc().
PcAfterFire_NoReturn == "select"

\* Start, after cancelFunc(): return.
PcAfterFire == "returned"

\* The ticker delivers a tick into ticker.C (capacity 1) until ticker.Stop().
WatcherTick(maxPolls) ==
  /\ wPc \in {"select", "fire"} /\ ~wTick /\ nPolls < maxPolls
  /\ wTick' = TRUE
  /\ UNCHANGED <<cancelCtxDone, wPc, nPolls, lastResp, firstCancelAt,
                 wCancelCalls>>
  /\ UNCHANGED nonWatcher

\* Start: the select takes ctx.Done() and returns. The select chooses among
\* the cases that are ready when it is entered; a select that is parked with
\* no case ready is resumed by the first case that becomes ready.
WatcherCtxDone ==
  /\ \/ wPc = "select" /\ cancelCtxDone
     \/ wPc = "doneTaken"
  /\ wPc' = "returned"
  /\ UNCHANGED <<cancelCtxDone, wTick, nPolls, lastResp, firstCancelAt,
                 wCancelCalls>>
  /\ UNCHANGED nonWatcher

\* Start: the select takes the tick and calls isCancelled(ctx).
WatcherPoll ==
  /\ wPc = "select" /\ wTick
  /\ wTick' = FALSE
  /\ nPolls' = nPolls + 1
  /\ \E r \in PollResponses(cancelCtxDone) :
       /\ lastResp' = r
       /\ firstCancelAt' =
            IF r = "cancelled" /\ firstCancelAt = 0 THEN nPolls + 1
            ELSE firstCancelAt
       /\ wPc' = IF IsCancelled(r) THEN "fire" ELSE "select"
  /\ UNCHANGED <<cancelCtxDone, wCancelCalls>>
  /\ UNCHANGED nonWatcher

\* Start: cancelFunc(), return.
WatcherFire ==
  /\ wPc = "fire"
  /\ cancelCtxDone' = TRUE
  /\ wCancelCalls' = wCancelCalls + 1
  /\ wPc' = PcAfterFire
  /\ UNCHANGED <<wTick, nPolls, lastResp, firstCancelAt>>
  /\ UNCHANGED nonWatcher

\* The watcher's position after its context is cancelled: a select parked
\* with no tick pending is resumed by ctx.Done().
WPcOnCancel ==
  IF wPc = "select" /\ ~wTick /\ ~cancelCtxDone THEN "doneTaken" ELSE wPc

\* The scope of the watcher ends on its own account: the caller cancels the
\* context.
ScopeEnd ==
  /\ wPc # "idle" /\ ~cancelCtxDone
  /\ cancelCtxDone' = TRUE
  /\ wPc' = WPcOnCancel
  /\ UNCHANGED <<wTick, nPolls, lastResp, firstCancelAt, wCancelCalls>>
  /\ UNCHANGED nonWatcher

\* SpecWatcher: go watcher.Start(ctx, cancelFunc) with ctx, cancelFunc from
\* context.WithCancel.
WatcherInit ==
  /\ sinkState = [t \in Sinks |-> "none"]
  /\ startSeq = [t \in Sinks |-> 0]
  /\ seq = [t \in Sinks |-> 0]
  /\ buf = [t \in Sinks |-> <<>>]
  /\ sent = <<>>
  /\ SinkProcInit
  /\ cancelCtxDone = FALSE /\ wPc = "select" /\ wTick = FALSE /\ nPolls = 0
  /\ lastResp = "none" /\ firstCancelAt = 0 /\ wCancelCalls = 0
  /\ RunIdle

WatcherNext ==
  \/ WatcherTick(MaxPolls)
  \/ WatcherCtxDone
  \/ WatcherPoll
  \/ WatcherFire
  \/ ScopeEnd

SpecWatcher == WatcherInit /\ [][WatcherNext]_vars

(***************************************************************************)
(* The file system and the environment RunManaged acts on                  *)
(***************************************************************************)
\* os.MkdirTemp("", "butler-runner-*") and the paths cloneGit derives.
TmpDir == TempRoot \o <<"butler-runner-1">>
CloneDir == TmpDir \o <<"source">>
\* filepath.Join and filepath.Dir on paths as sequences of components.
Join(p, q) == p \o q
Dir(p) == SubSeq(p, 1, Len(p) - 1)
\* q is p or lies under p.
IsUnder(p, q) == Len(q) >= Len(p) /\ SubSeq(q, 1, Len(p)) = p

Exists(f, p) == p \in DOMAIN f
\* os.RemoveAll, os.Remove, os.WriteFile, os.Mkdir on a file system f.
RemoveAll(f, p) == [q \in {r \in DOMAIN f : ~IsUnder(p, r)} |-> f[q]]
Remove(f, p) == [q \in DOMAIN f \ {p} |-> f[q]]
WriteFile(f, p, data) == [q \in DOMAIN f \cup {p} |-> IF q = p THEN data ELSE f[q]]
Mkdir(f, p) == WriteFile(f, p, "dir")

\* What `git clone ... cloneDir` leaves: the repository's directories and a
\* file.
Cloned(f) ==
  WriteFile(Mkdir(Mkdir(Mkdir(f, CloneDir), Join(CloneDir, <<"a">>)),
                  Join(CloneDir, <<"a", "b">>)),
            Join(CloneDir, <<"main.tf">>), <<1>>)

\* How source.Prepare can go.
PrepareKinds == {"ok", "badType", "mkdirFails", "cloneFails", "checkoutFails"}

\* source.Prepare / cloneGit: the work directory, the error and the file
\* system it leaves, for a source descriptor with working directory sub.
Prepare(f, kind, sub) ==
  CASE kind = "badType" -> [workDir |-> << >>, err |-> TRUE, fs |-> f]
    [] kind = "mkdirFails" -> [workDir |-> << >>, err |-> TRUE, fs |-> f]
    [] kind = "cloneFails" ->
         [workDir |-> << >>, err |-> TRUE, fs |-> RemoveAll(Mkdir(f, TmpDir), TmpDir)]
    [] kind = "checkoutFails" ->
         [workDir |-> << >>, err |-> TRUE,
          fs |-> RemoveAll(Cloned(Mkdir(f, TmpDir)), TmpDir)]
    [] OTHER ->
         LET g == Cloned(Mkdir(f, TmpDir))
             wd == IF sub # << >> THEN Join(CloneDir, sub) ELSE CloneDir
         IN IF sub # << >> /\ ~Exists(g, wd)
            THEN [workDir |-> << >>, err |-> TRUE, fs |-> RemoveAll(g, TmpDir)]
            ELSE [workDir |-> wd, err |-> FALSE, fs |-> g]

\* The directory RunManaged's deferred cleanup removes.
CleanupRoot(wd) == Dir(wd)

\* WriteTfvars: the path of the input-variable file.
TfvarsPath(wd) == Join(wd, <<"terraform.tfvars.json">>)
\* Executor.plan: the plan artifact.
PlanFile(wd) == Join(wd, <<"tfplan">>)

\* make([]byte, n).
Zeros(n) == [i \in 1..n |-> 0]

\* A size taken to be one byte whatever the file holds.
FileSize_OneByte(f, p) == 1

\* os.Stat(path), info.Size().
FileSize(f, p) == Len(f[p])

\* SecureDelete, the overwrite: zeros of the file's size.
\* SecureDelete without the overwrite.
SecureOverwrite_NoZeros(f, p) == f

\* SecureDelete: zeros := make([]byte, info.Size()); os.WriteFile(path, zeros).
SecureOverwrite(f, p) == WriteFile(f, p, Zeros(FileSize(f, p)))

(***************************************************************************)
(* runner.RunManaged                                                       *)
(***************************************************************************)
\* The reports made with the watcher's cancellable context.
ReportCtxDone_Cancellable == cancelCtxDone

\* Whether the context the reports are made with, RunManaged's parameter ctx,
\* is done: cancelFunc cancels only the derived cancelCtx.
ReportCtxDone == FALSE

\* A ReportStatus call and a ReportOutputs call. RunManaged ignores or only
\* logs the transport's outcome, so the call is recorded without it.
\* Each call is made with RunManaged's own ctx; ctxDone records whether that
\* context was done when the call was made.
StatusReport(status, code, ok) ==
  [kind |-> "status", status |-> status, code |-> code, ctxDone |-> ReportCtxDone,
   ok |-> ok]
OutputsReport(ok) ==
  [kind |-> "outputs", status |-> "outputs", code |-> 0, ctxDone |-> ReportCtxDone,
   ok |-> ok]

\* What a ReportStatus / ReportOutputs call can return: nil, or an error
\* when the callbacks can fail.
ReportOutcomes == IF reportFaults THEN BOOLEAN ELSE {TRUE}

\* A failed report returning from RunManaged.
AfterReport_FailureReturns(ok, next) == IF ok THEN next ELSE "unwind"

\* `if err := cb.Report...; err != nil { logger.Warn(...) }`: where
\* RunManaged goes on after a report that returned nil (ok) or an error.
AfterReport(ok, next) == next

\* `return fmt.Errorf(...)` after `_ = cb.ReportStatus(ctx, "failed", ...)`:
\* the report is attempted, the error returned, the deferred calls run.
FailWith(code) ==
  /\ \E ok \in ReportOutcomes :
       statusLog' = Append(statusLog, StatusReport("failed", code, ok))
  /\ retval' = "error"
  /\ pc' = "unwind"

\* 1. config.FetchConfig; on error RunManaged returns at once.
FetchConfig ==
  /\ pc = "fetchConfig"
  /\ \/ /\ \E o \in ConfigOps, sd \in ConfigSubdirs, d \in TfvarsData,
             e \in ConfigEnvKinds :
             cfg' = [op |-> o, subdir |-> sd, data |-> d, env |-> e]
        /\ pc' = "reportRunning"
        /\ UNCHANGED retval
     \/ /\ retval' = "error"
        /\ pc' = "done"
        /\ UNCHANGED cfg
  /\ UNCHANGED <<fs, workDir, env, env0, reportFaults, envFaults, parse, hostOut, tracked, envVarKeys, defers, statusLog, child,
                 cmdRes, result, runErr, runLog, cleanupLog>>
  /\ UNCHANGED <<sinkData, sinkProc, watcherVars>>

\* 2. cb.ReportStatus(ctx, "running", nil); a failure is logged.
ReportRunning ==
  /\ pc = "reportRunning"
  /\ \E ok \in ReportOutcomes :
       /\ statusLog' = Append(statusLog, StatusReport("running", 0, ok))
       /\ pc' = AfterReport(ok, "resolveVersion")
  /\ UNCHANGED <<cfg, fs, workDir, env, env0, reportFaults, envFaults, parse, hostOut, tracked, envVarKeys, defers, retval,
                 child, cmdRes, result, runErr, runLog, cleanupLog>>
  /\ UNCHANGED <<sinkData, sinkProc, watcherVars>>

\* 3. terraform.ResolveVersion.
ResolveVersion ==
  /\ pc = "resolveVersion"
  /\ \/ /\ pc' = "prepare"
        /\ UNCHANGED <<statusLog, retval>>
     \/ FailWith(1)
  /\ UNCHANGED <<cfg, fs, workDir, env, env0, reportFaults, envFaults, parse, hostOut, tracked, envVarKeys, defers, child,
                 cmdRes, result, runErr, runLog, cleanupLog>>
  /\ UNCHANGED <<sinkData, sinkProc, watcherVars>>

\* 4. source.Prepare, and on success `defer os.RemoveAll(filepath.Dir(workDir))`.
PrepareSource ==
  /\ pc = "prepare"
  /\ \E kind \in PrepareKinds :
       LET r == Prepare(fs, kind, cfg.subdir)
       IN /\ fs' = r.fs
          /\ workDir' = r.workDir
          /\ IF r.err
             THEN /\ FailWith(1)
                  /\ UNCHANGED defers
             ELSE /\ defers' = Append(defers, "removeAll")
                  /\ pc' = "setEnv"
                  /\ UNCHANGED <<statusLog, retval>>
  /\ UNCHANGED <<cfg, env, env0, reportFaults, envFaults, parse, hostOut, tracked, envVarKeys, child, cmdRes, result,
                 runErr, runLog, cleanupLog>>
  /\ UNCHANGED <<sinkData, sinkProc, watcherVars>>

\* Whether os.Setenv(key, val) succeeds.
SetenvOutcomes == IF envFaults THEN BOOLEAN ELSE {TRUE}

\* A key that was set but not remembered for the deferred os.Unsetenv.
RememberKey_Dropped(keys, key) == keys

\* envVarKeys = append(envVarKeys, key).
RememberKey(keys, key) == Append(keys, key)

\* 5. The loop over execCfg.EnvVars: a non-string value is skipped, a failed
\* os.Setenv is logged and skipped, a key that was set is remembered; then
\* the deferred loop of os.Unsetenv is registered.
SetEnv ==
  /\ pc = "setEnv"
  /\ IF cfg.env = "string"
     THEN \E ok \in SetenvOutcomes :
            IF ok
            THEN /\ env' = "new"
                 /\ envVarKeys' = RememberKey(envVarKeys, EnvKey)
            ELSE UNCHANGED <<env, envVarKeys>>
     ELSE UNCHANGED <<env, envVarKeys>>
  /\ defers' = Append(defers, "unsetEnv")
  /\ pc' = "writeTfvars"
  /\ UNCHANGED <<cfg, fs, workDir, env0, reportFaults, envFaults, parse, hostOut, tracked, statusLog, retval, child, cmdRes, result, runErr, runLog, cleanupLog>>
  /\ UNCHANGED <<sinkData, sinkProc, watcherVars>>

\* 6. terraform.WriteTfvars, and on success `defer terraform.SecureDelete`.
WriteTfvars ==
  /\ pc = "writeTfvars"
  /\ \/ /\ fs' = WriteFile(fs, TfvarsPath(workDir), cfg.data)
        /\ defers' = Append(defers, "secureDelete")
        /\ pc' = "startWatcher"
        /\ UNCHANGED <<statusLog, retval>>
     \/ /\ FailWith(1)
        /\ UNCHANGED <<fs, defers>>
  /\ UNCHANGED <<cfg, workDir, env, env0, reportFaults, envFaults, parse, hostOut, tracked, envVarKeys, child, cmdRes,
                 result, runErr, runLog, cleanupLog>>
  /\ UNCHANGED <<sinkData, sinkProc, watcherVars>>

\* 7. context.WithCancel, `defer cancelFunc()`, `go watcher.Start(...)`.
StartWatcher ==
  /\ pc = "startWatcher"
  /\ defers' = Append(defers, "cancelFunc")
  /\ wPc' = "select"
  /\ pc' = "newStdout"
  /\ UNCHANGED <<cfg, fs, workDir, env, env0, reportFaults, envFaults, parse, hostOut, tracked, envVarKeys, statusLog, retval,
                 child, cmdRes, result, runErr, runLog, cleanupLog>>
  /\ UNCHANGED <<cancelCtxDone, wTick, nPolls, lastResp, firstCancelAt,
                 wCancelCalls>>
  /\ UNCHANGED <<sinkData, sinkProc>>

\* Only the stdout sink's Close deferred.
DeferredCloses_StdoutOnly == <<"closeStdout">>

\* The deferred Close calls in the order RunManaged registers them.
DeferredCloses == <<"closeStderr", "closeStdout">>

\* 8a. stdoutLog := logstream.NewWriter(ctx, cb, "stdout", logger, 2s, 0).
NewStdoutWriter ==
  /\ pc = "newStdout"
  /\ NewWriterData("stdout", 0)
  /\ pc' = "newStderr"
  /\ UNCHANGED <<cfg, fs, workDir, env, env0, reportFaults, envFaults, parse, hostOut, tracked, envVarKeys, defers, statusLog,
                 retval, child, cmdRes, result, runErr, runLog,
                 cleanupLog>>
  /\ UNCHANGED <<sent, sinkProc, watcherVars>>

\* 8b. stderrLog := logstream.NewWriter(..., "stderr", ...,
\* stdoutLog.Sequence()); defer stderrLog.Close(); defer stdoutLog.Close().
NewStderrWriter ==
  /\ pc = "newStderr"
  /\ NewWriterData("stderr", Sequence("stdout"))
  /\ defers' = defers \o DeferredCloses
  /\ pc' = "init"
  /\ UNCHANGED <<cfg, fs, workDir, env, env0, reportFaults, envFaults, parse, hostOut, tracked, envVarKeys, statusLog, retval,
                 child, cmdRes, result, runErr, runLog, cleanupLog>>
  /\ UNCHANGED <<sent, sinkProc, watcherVars>>

(***************************************************************************)
(* terraform.Executor under RunManaged                                     *)
(***************************************************************************)
\* The subcommands whose output the executor tees to the sinks.
TeedCmds == {"init", "plan", "apply", "destroy"}

\* show and output bound to a context the signal does not reach.
ChildCtxDone_SecondaryUnbound(cmd) ==
  IF cmd \in {"show", "output"} THEN FALSE ELSE cancelCtxDone

\* Whether the context child process cmd is bound to
\* (exec.CommandContext(ctx, ...), ctx being RunManaged's cancelCtx) is done.
ChildCtxDone(cmd) == cancelCtxDone

\* cmd.Run, the start: with the context done no process is started and the
\* context's error is returned; a start can also fail on its own account.
StartCmd(cmd, runPc, retPc) ==
  IF ChildCtxDone(cmd)
  THEN /\ cmdRes' = [err |-> "other", code |-> 0]
       /\ pc' = retPc
       /\ UNCHANGED <<child>>
  ELSE \/ /\ child' = cmd
          /\ pc' = runPc
          /\ cmdRes' = NoCmd
       \/ /\ cmdRes' = [err |-> "other", code |-> 0]
          /\ pc' = retPc
          /\ UNCHANGED <<child>>

\* Where the executor continues when cmd.Run returns.
RetPc(p) ==
  CASE p = "initRun" -> "initRet"
    [] p = "mainRun" -> "mainRet"
    [] p = "secRun" -> "secRet"

\* The first writer of the io.MultiWriter the executor gives child cmd for
\* stream s (the second is the sink): os.Stdout for the stdout of init, a
\* bytes.Buffer of the executor otherwise.
HostWriter(cmd, s) ==
  IF cmd = "init" /\ s = "stdout" THEN "os.Stdout" ELSE "bytes.Buffer"

\* The running child writes a line to its stdout or stderr, which the
\* executor tees to the sink; the sink's line reader makes it a log entry.
\* With track, the host-side writer of the io.MultiWriter is followed too.
ChildWriteLine(track) ==
  /\ child \in TeedCmds /\ Len(runLog) < MaxRunLines
  /\ \E s \in Sinks :
       /\ sinkState[s] = "open"
       /\ AppendLine(s, <<"x">>)
       /\ runLog' = Append(runLog, [Sequence |-> seq[s] + 1, Stream |-> s])
       /\ hostOut' = IF track
                     THEN Append(hostOut, [cmd |-> child, stream |-> s,
                                           writer |-> HostWriter(child, s),
                                           Sequence |-> seq[s] + 1])
                     ELSE hostOut
  /\ UNCHANGED <<pc, cfg, fs, workDir, env, env0, reportFaults, envFaults, parse, tracked, envVarKeys,
                 defers, statusLog, retval, child, cmdRes, result, runErr,
                 cleanupLog>>
  /\ UNCHANGED <<sinkState, startSeq, sent, sinkProc, watcherVars>>

ChildWrite == ChildWriteLine(FALSE)

ChildWriteTee == ChildWriteLine(TRUE)

\* The running child ends by itself; a plan may have written the plan file.
ChildExit ==
  /\ child # "none"
  /\ \E o \in ExitOutcomes : cmdRes' = o
  /\ \/ UNCHANGED fs
     \/ /\ child = "plan"
        /\ fs' = WriteFile(fs, PlanFile(workDir), <<2>>)
  /\ child' = "none"
  /\ pc' = RetPc(pc)
  /\ UNCHANGED <<cfg, workDir, env, env0, reportFaults, envFaults, parse, hostOut, tracked, envVarKeys, defers, statusLog,
                 retval, result, runErr, runLog, cleanupLog>>
  /\ UNCHANGED <<sinkData, sinkProc, watcherVars>>

\* The child's context is done: the process is killed and cmd.Run returns an
\* ExitError whose ExitCode() is -1.
ChildKill ==
  /\ child # "none" /\ ChildCtxDone(child)
  /\ cmdRes' = [err |-> "exit", code |-> -1]
  /\ child' = "none"
  /\ pc' = RetPc(pc)
  /\ UNCHANGED <<cfg, fs, workDir, env, env0, reportFaults, envFaults, parse, hostOut, tracked, envVarKeys, defers, statusLog,
                 retval, result, runErr, runLog, cleanupLog>>
  /\ UNCHANGED <<sinkData, sinkProc, watcherVars>>

\* 9. exec.Init(cancelCtx): the init child is started.
InitStart ==
  /\ pc = "init"
  /\ StartCmd("init", "initRun", "initRet")
  /\ UNCHANGED <<cfg, fs, workDir, env, env0, reportFaults, envFaults, parse, hostOut, tracked, envVarKeys, defers, statusLog,
                 retval, result, runErr, runLog, cleanupLog>>
  /\ UNCHANGED <<sinkData, sinkProc, watcherVars>>

\* Init failing only when the child exited non-zero.
InitFailed_ExitOnly(r) == r.err = "exit"

\* Executor.Init: if err := cmd.Run(); err != nil.
InitFailed(r) == r.err # "none"

\* exec.Init returned: an error is reported 'failed' with exit code 1.
InitReturn ==
  /\ pc = "initRet"
  /\ IF InitFailed(cmdRes)
     THEN FailWith(1)
     ELSE /\ pc' = "run"
          /\ UNCHANGED <<statusLog, retval>>
  /\ cmdRes' = NoCmd
  /\ UNCHANGED <<cfg, fs, workDir, env, env0, reportFaults, envFaults, parse, hostOut, tracked, envVarKeys, defers, child,
                 result, runErr, runLog, cleanupLog>>
  /\ UNCHANGED <<sinkData, sinkProc, watcherVars>>

\* exec.Run(cancelCtx, operation): the switch; plan, apply and destroy start
\* their main child, any other operation returns (nil, error).
RunDispatch ==
  /\ pc = "run"
  /\ IF cfg.op \in Operations
     THEN /\ StartCmd(cfg.op, "mainRun", "mainRet")
          /\ UNCHANGED <<result, runErr>>
     ELSE /\ result' = NilResult
          /\ runErr' = TRUE
          /\ pc' = "runRet"
          /\ UNCHANGED <<child, cmdRes>>
  /\ UNCHANGED <<cfg, fs, workDir, env, env0, reportFaults, envFaults, parse, hostOut, tracked, envVarKeys, defers, statusLog,
                 retval, runLog, cleanupLog>>
  /\ UNCHANGED <<sinkData, sinkProc, watcherVars>>

\* plan/apply/destroy: exitCode from an ExitError, else 0.
ExitCodeOf(r) == IF r.err = "exit" THEN r.code ELSE 0

\* Every operation clearing exit code 2 as plan does.
MainErr_TwoClearedForAll(op, r) ==
  r.err # "none" /\ ~(r.err = "exit" /\ r.code = 2)

\* plan without the clearing of exit code 2.
MainErr_PlanTwoFails(op, r) == r.err # "none"

\* plan/apply/destroy: whether err stays non-nil; for plan an ExitError with
\* code 2 is cleared.
MainErr(op, r) ==
  IF op = "plan"
  THEN r.err # "none" /\ ~(r.err = "exit" /\ r.code = 2)
  ELSE r.err # "none"

\* The resource deltas after the main child: plan leaves the three counts
\* zero, apply and destroy take them from the summary line of the output.
MainDeltas(op) == IF op = "plan" THEN "zero" ELSE "summary"

\* The secondary invocation's error returned in place of being dropped.
SecondaryErr_Returned(r, mainErr) == mainErr \/ r.err # "none"

\* plan/apply: the error returned after the secondary invocation is the main
\* child's; showErr / outputErr (and jsonErr) are only tested against nil.
SecondaryErr(r, mainErr) == mainErr

\* plan/apply/destroy after the main cmd.Run: the result is built; plan
\* starts `show -json` when the plan file exists, apply starts `output
\* -json`, destroy returns.
MainReturn ==
  /\ pc = "mainRet"
  /\ result' = [nil |-> FALSE, ExitCode |-> ExitCodeOf(cmdRes), PlanJSON |-> "",
                Deltas |-> MainDeltas(cfg.op), Outputs |-> "nil"]
  /\ runErr' = MainErr(cfg.op, cmdRes)
  /\ CASE cfg.op = "plan" /\ Exists(fs, PlanFile(workDir)) ->
            StartCmd("show", "secRun", "secRet")
       [] cfg.op = "apply" -> StartCmd("output", "secRun", "secRet")
       [] OTHER -> /\ pc' = "runRet"
                   /\ cmdRes' = NoCmd
                   /\ UNCHANGED <<child>>
  /\ UNCHANGED <<cfg, fs, workDir, env, env0, reportFaults, envFaults, parse, hostOut, tracked, envVarKeys, defers, statusLog,
                 retval, runLog, cleanupLog>>
  /\ UNCHANGED <<sinkData, sinkProc, watcherVars>>

\* plan/apply after the secondary cmd.Run: its failure is swallowed; on
\* success plan keeps the structured plan and parseResourceCounts counts the
\* deltas if it decodes, apply keeps the outputs if they decode.
SecondaryReturn ==
  /\ pc = "secRet"
  /\ IF cmdRes.err = "none"
     THEN IF cfg.op = "plan"
          THEN \E parses \in BOOLEAN :
                 result' = [result EXCEPT !.PlanJSON = "json",
                                          !.Deltas = IF parses THEN "counted" ELSE "zero"]
          ELSE \E decodes \in BOOLEAN :
                 result' = [result EXCEPT !.Outputs = IF decodes THEN "map" ELSE "nil"]
     ELSE UNCHANGED result
  /\ runErr' = SecondaryErr(cmdRes, runErr)
  /\ pc' = "runRet"
  /\ cmdRes' = NoCmd
  /\ UNCHANGED <<cfg, fs, workDir, env, env0, reportFaults, envFaults, parse, hostOut, tracked, envVarKeys, defers, statusLog,
                 retval, child, runLog, cleanupLog>>
  /\ UNCHANGED <<sinkData, sinkProc, watcherVars>>

\* Outputs reported after every run that succeeded.
HasOutputs_Always(r) == TRUE

\* 11. `if result.Outputs != nil`.
HasOutputs(r) == r.Outputs # "nil"

\* RunManaged after exec.Run: on error the 'failed' report reads
\* result.ResourcesToAdd, which panics on a nil result; else 'succeeded' is
\* reported.
RunReturn ==
  /\ pc = "runRet"
  /\ IF runErr
     THEN IF result.nil
          THEN /\ retval' = "panic"
               /\ pc' = "unwind"
               /\ UNCHANGED statusLog
          ELSE FailWith(result.ExitCode)
     ELSE \E ok \in ReportOutcomes :
            /\ statusLog' = Append(statusLog,
                                   StatusReport("succeeded", result.ExitCode, ok))
            /\ pc' = AfterReport(ok, IF HasOutputs(result)
                                     THEN "reportOutputs" ELSE "unwind")
            /\ retval' = IF pc' = "unwind" THEN "nil" ELSE retval
  /\ UNCHANGED <<cfg, fs, workDir, env, env0, reportFaults, envFaults, parse, hostOut, tracked, envVarKeys, defers, child,
                 cmdRes, result, runErr, runLog, cleanupLog>>
  /\ UNCHANGED <<sinkData, sinkProc, watcherVars>>

\* 11. cb.ReportOutputs; a failure is logged; return nil.
ReportOutputs ==
  /\ pc = "reportOutputs"
  /\ \E ok \in ReportOutcomes :
       /\ statusLog' = Append(statusLog, OutputsReport(ok))
       /\ pc' = AfterReport(ok, "unwind")
  /\ retval' = "nil"
  /\ UNCHANGED <<cfg, fs, workDir, env, env0, reportFaults, envFaults, parse, hostOut, tracked, envVarKeys, defers, child,
                 cmdRes, result, runErr, runLog, cleanupLog>>
  /\ UNCHANGED <<sinkData, sinkProc, watcherVars>>

(***************************************************************************)
(* The deferred calls, last registered first                               *)
(***************************************************************************)
Top(st) == st[Len(st)]
Pop(st) == SubSeq(st, 1, Len(st) - 1)
Deferred(name) == pc = "unwind" /\ defers # << >> /\ Top(defers) = name

\* The SendLogs calls of one flush of batch b from index i on, all with
\* transport outcome ok.
RECURSIVE ChunkCalls(_, _, _, _, _)
ChunkCalls(s, p, b, i, ok) ==
  IF i >= Len(b) THEN << >>
  ELSE <<[stream |-> s, by |-> p, ok |-> ok,
          entries |-> SubSeq(b, i + 1, Min(i + ChunkSize, Len(b)))]>>
       \o ChunkCalls(s, p, b, i + ChunkSize, ok)

\* One whole flush of sink s by p.
FlushAll(s, p) ==
  /\ \E ok \in BOOLEAN :
       sent' = sent \o ChunkCalls(s, p, TruncateBatch(buf[s]), 0, ok)
  /\ buf' = [buf EXCEPT ![s] = << >>]

\* The deferred Close of sink s.
CloseName(s) == IF s = "stdout" THEN "closeStdout" ELSE "closeStderr"

\* Deferred stdoutLog.Close() / stderrLog.Close(): the reader ends, the timer
\* is stopped, the final flush sends what is buffered. (SpecSink has the
\* sink's own processes step by step; here the buffer is sent at Close.)
DeferCloseOf(s) ==
  /\ Deferred(CloseName(s))
  /\ FlushAll(s, "closer")
  /\ sinkState' = [sinkState EXCEPT ![s] = "closed"]
  /\ cleanupLog' = Append(cleanupLog, <<"close", s>>)
  /\ defers' = Pop(defers)
  /\ UNCHANGED <<pc, cfg, fs, workDir, env, env0, reportFaults, envFaults, parse, hostOut, tracked, envVarKeys, statusLog,
                 retval, child, cmdRes, result, runErr, runLog>>
  /\ UNCHANGED <<startSeq, seq, sinkProc, watcherVars>>

DeferClose == \E s \in Sinks : DeferCloseOf(s)

\* Deferred cancelFunc().
DeferCancel ==
  /\ Deferred("cancelFunc")
  /\ cancelCtxDone' = TRUE
  /\ wPc' = WPcOnCancel
  /\ cleanupLog' = Append(cleanupLog, <<"cancel">>)
  /\ defers' = Pop(defers)
  /\ UNCHANGED <<pc, cfg, fs, workDir, env, env0, reportFaults, envFaults, parse, hostOut, tracked, envVarKeys, statusLog,
                 retval, child, cmdRes, result, runErr, runLog>>
  /\ UNCHANGED <<wTick, nPolls, lastResp, firstCancelAt, wCancelCalls>>
  /\ UNCHANGED <<sinkData, sinkProc>>

\* Deferred terraform.SecureDelete(tfvarsPath): os.Stat; on error return;
\* else the file is overwritten with zeros of its size.
DeferSecureDelete ==
  /\ Deferred("secureDelete")
  /\ defers' = Pop(defers)
  /\ IF Exists(fs, TfvarsPath(workDir))
     THEN /\ fs' = SecureOverwrite(fs, TfvarsPath(workDir))
          /\ cleanupLog' = Append(cleanupLog, <<"overwrite">>)
          /\ pc' = "secureRemove"
     ELSE UNCHANGED <<fs, cleanupLog, pc>>
  /\ UNCHANGED <<cfg, workDir, env, env0, reportFaults, envFaults, parse, hostOut, tracked, envVarKeys, statusLog, retval, child,
                 cmdRes, result, runErr, runLog>>
  /\ UNCHANGED <<sinkData, sinkProc, watcherVars>>

\* SecureDelete: os.Remove(path).
SecureRemove ==
  /\ pc = "secureRemove"
  /\ fs' = Remove(fs, TfvarsPath(workDir))
  /\ cleanupLog' = Append(cleanupLog, <<"remove">>)
  /\ pc' = "unwind"
  /\ UNCHANGED <<cfg, workDir, env, env0, reportFaults, envFaults, parse, hostOut, tracked, envVarKeys, defers, statusLog,
                 retval, child, cmdRes, result, runErr, runLog>>
  /\ UNCHANGED <<sinkData, sinkProc, watcherVars>>

\* The deferred loop of os.Unsetenv over envVarKeys.
DeferUnsetEnv ==
  /\ Deferred("unsetEnv")
  /\ defers' = Pop(defers)
  /\ env' = IF envVarKeys # << >> THEN "unset" ELSE env
  /\ cleanupLog' = Append(cleanupLog, <<"unsetEnv">>)
  /\ UNCHANGED <<pc, cfg, fs, workDir, env0, reportFaults, envFaults, parse, hostOut, tracked, envVarKeys, statusLog, retval,
                 child, cmdRes, result, runErr, runLog>>
  /\ UNCHANGED <<sinkData, sinkProc, watcherVars>>

\* Deferred os.RemoveAll(filepath.Dir(workDir)).
DeferRemoveAll ==
  /\ Deferred("removeAll")
  /\ defers' = Pop(defers)
  /\ fs' = RemoveAll(fs, CleanupRoot(workDir))
  /\ cleanupLog' = Append(cleanupLog, <<"removeAll">>)
  /\ UNCHANGED <<pc, cfg, workDir, env, env0, reportFaults, envFaults, parse, hostOut, tracked, envVarKeys, statusLog, retval,
                 child, cmdRes, result, runErr, runLog>>
  /\ UNCHANGED <<sinkData, sinkProc, watcherVars>>

\* No deferred call is left: RunManaged returns (or the panic goes on).
Return ==
  /\ pc = "unwind" /\ defers = << >>
  /\ pc' = "done"
  /\ UNCHANGED <<cfg, fs, workDir, env, env0, reportFaults, envFaults, parse, hostOut, tracked, envVarKeys, defers, statusLog,
                 retval, child, cmdRes, result, runErr, runLog,
                 cleanupLog>>
  /\ UNCHANGED <<sinkData, sinkProc, watcherVars>>

\* SpecRun: one call of RunManaged, with the watcher it starts.
RunStartWith(faults, setenvFaults) ==
  /\ sinkState = [t \in Sinks |-> "none"]
  /\ startSeq = [t \in Sinks |-> 0]
  /\ seq = [t \in Sinks |-> 0]
  /\ buf = [t \in Sinks |-> << >>]
  /\ sent = << >>
  /\ SinkProcInit
  /\ WatcherIdle
  /\ pc = "fetchConfig" /\ cfg = NoCfg /\ fs = FsInit /\ workDir = << >>
  /\ env0 = "old" /\ env = env0 /\ reportFaults = faults /\ parse = NoParse /\ hostOut = << >> /\ tracked = "none"
  /\ envFaults = setenvFaults
  /\ envVarKeys = << >> /\ defers = << >>
  /\ statusLog = << >> /\ retval = "none" /\ child = "none"
  /\ cmdRes = NoCmd /\ result = NilResult /\ runErr = FALSE
  /\ runLog = << >> /\ cleanupLog = << >>

RunStart(faults) == RunStartWith(faults, FALSE)

RunInit == RunStart(FALSE)

RunNext ==
  \/ FetchConfig
  \/ ReportRunning
  \/ ResolveVersion
  \/ PrepareSource
  \/ SetEnv
  \/ WriteTfvars
  \/ StartWatcher
  \/ NewStdoutWriter
  \/ NewStderrWriter
  \/ InitStart
  \/ InitReturn
  \/ RunDispatch
  \/ MainReturn
  \/ SecondaryReturn
  \/ RunReturn
  \/ ReportOutputs
  \/ ChildWrite
  \/ ChildExit
  \/ ChildKill
  \/ DeferClose
  \/ DeferCancel
  \/ DeferSecureDelete
  \/ SecureRemove
  \/ DeferUnsetEnv
  \/ DeferRemoveAll
  \/ Return
  \/ WatcherTick(MaxRunPolls)
  \/ WatcherCtxDone
  \/ WatcherPoll
  \/ WatcherFire

SpecRun == RunInit /\ [][RunNext]_vars

\* SpecRunFaulty: one call of RunManaged in which the status and outputs
\* callbacks can fail as the log callback can; the watcher never observes a
\* cancellation.
FaultyInit == RunStart(TRUE)

FaultyNext ==
  \/ FetchConfig
  \/ ReportRunning
  \/ ResolveVersion
  \/ PrepareSource
  \/ SetEnv
  \/ WriteTfvars
  \/ StartWatcher
  \/ NewStdoutWriter
  \/ NewStderrWriter
  \/ InitStart
  \/ InitReturn
  \/ RunDispatch
  \/ MainReturn
  \/ SecondaryReturn
  \/ RunReturn
  \/ ReportOutputs
  \/ ChildWrite
  \/ ChildExit
  \/ DeferClose
  \/ DeferCancel
  \/ DeferSecureDelete
  \/ SecureRemove
  \/ DeferUnsetEnv
  \/ DeferRemoveAll
  \/ Return
  \/ WatcherCtxDone

SpecRunFaulty == FaultyInit /\ [][FaultyNext]_vars

\* SpecEnv: one call of RunManaged in which os.Setenv can fail.
EnvInit == RunStartWith(FALSE, TRUE)

SpecEnv == EnvInit /\ [][RunNext]_vars

\* SpecErase: one call of SecureDelete(path), on a file of up to MaxFileLen
\* bytes or on a path that does not exist; cfg.data keeps what the file held
\* at the call, and a sibling file may stand beside the path.
FileBytes == {0, 7}
RECURSIVE FileContents(_)
FileContents(n) ==
  IF n = 0 THEN {<< >>}
  ELSE LET shorter == FileContents(n - 1)
       IN shorter \cup {Append(c, b) : c \in shorter, b \in FileBytes}
EraseDirs == {CloneDir, Join(CloneDir, <<"a", "b">>)}
EraseInit ==
  /\ \E wd \in EraseDirs, c \in FileContents(MaxFileLen),
        there \in BOOLEAN, sibling \in BOOLEAN :
       LET g == Cloned(Mkdir(FsInit, TmpDir))
           h == IF sibling THEN WriteFile(g, PlanFile(wd), <<2>>) ELSE g
       IN /\ workDir = wd
          /\ cfg = [NoCfg EXCEPT !.data = IF there THEN c ELSE << >>]
          /\ fs = IF there THEN WriteFile(h, TfvarsPath(wd), c) ELSE h
  /\ pc = "unwind" /\ defers = <<"secureDelete">>
  /\ parse = NoParse /\ hostOut = << >> /\ tracked = "none" /\ envFaults = FALSE
  /\ env = "unset" /\ env0 = "unset" /\ reportFaults = FALSE
  /\ envVarKeys = << >>
  /\ statusLog = << >> /\ retval = "none" /\ child = "none"
  /\ cmdRes = NoCmd /\ result = NilResult /\ runErr = FALSE
  /\ runLog = << >> /\ cleanupLog = << >>
  /\ WatcherIdle
  /\ sinkState = [t \in Sinks |-> "none"]
  /\ startSeq = [t \in Sinks |-> 0] /\ seq = [t \in Sinks |-> 0]
  /\ buf = [t \in Sinks |-> <<>>] /\ sent = <<>>
  /\ SinkProcInit

EraseNext ==
  \/ DeferSecureDelete
  \/ SecureRemove
  \/ Return

SpecErase == EraseInit /\ [][EraseNext]_vars

\* SpecTasks: RunManaged from exec.Init on, with one of its three concurrent
\* parties (tracked) followed step by step. For a sink these are the
\* goroutines of SpecSink: the child's output reaches the sink through
\* Writer.Write, and its deferred Close is the Close of SpecSink, while the
\* watcher's ticker does not fire before the run ends. For the watcher these
\* are its ticks and polls. A sink that is not tracked gets no output and is
\* closed in one step.
TaskOps == {"destroy", "refresh"}
Tracked == Sinks \cup {"watcher"}
TasksInitWith(ops) ==
  /\ sinkState = [t \in Sinks |-> "open"]
  /\ startSeq = [t \in Sinks |-> 0]
  /\ seq = [t \in Sinks |-> 0]
  /\ buf = [t \in Sinks |-> << >>]
  /\ sent = << >>
  /\ SinkProcInit
  /\ cancelCtxDone = FALSE /\ wPc = "select" /\ wTick = FALSE /\ nPolls = 0
  /\ lastResp = "none" /\ firstCancelAt = 0 /\ wCancelCalls = 0
  /\ pc = "init"
  /\ \E o \in ops, d \in TfvarsData :
       /\ cfg = [op |-> o, subdir |-> << >>, data |-> d, env |-> "nonstring"]
       /\ fs = WriteFile(Prepare(FsInit, "ok", << >>).fs, TfvarsPath(CloneDir), d)
  /\ workDir = CloneDir
  /\ env0 = "old" /\ env = env0 /\ reportFaults = FALSE /\ envFaults = FALSE
  /\ parse = NoParse /\ hostOut = << >>
  /\ tracked \in Tracked
  /\ envVarKeys = << >>
  /\ defers = <<"removeAll", "unsetEnv", "secureDelete", "cancelFunc">>
                \o DeferredCloses
  /\ statusLog = <<StatusReport("running", 0, TRUE)>>
  /\ retval = "none" /\ child = "none"
  /\ cmdRes = NoCmd /\ result = NilResult /\ runErr = FALSE
  /\ runLog = << >> /\ cleanupLog = << >>

TasksInit == TasksInitWith(TaskOps)

\* The copier of the running child writes the child's output to the tracked
\* sink: Writer.Write.
TaskWrite ==
  /\ tracked \in Sinks /\ child \in TeedCmds /\ nWrites < MaxTaskWrites
  /\ ProducerWrite(tracked)

\* The tracked sink's ticker, the tracked watcher's ticker.
TaskTick == tracked \in Sinks /\ nTicks < MaxTaskTicks /\ Tick(tracked)
TaskWatcherTick == tracked = "watcher" /\ WatcherTick(MaxRunPolls)

\* cmd.Run returns when the child has ended and the copiers have returned
\* from their last Write.
TaskChildExit == prodPc = "idle" /\ ChildExit
TaskChildKill == prodPc = "idle" /\ ChildKill

\* The deferred Close of the tracked sink is called: w.pw.Close().
TaskCloseBegin ==
  tracked \in Sinks /\ Deferred(CloseName(tracked)) /\ CloseBegin(tracked)

\* The deferred Close of the tracked sink returns.
TaskCloseReturn ==
  /\ tracked \in Sinks
  /\ Deferred(CloseName(tracked)) /\ closerPc = "returned"
  /\ sinkState' = [sinkState EXCEPT ![tracked] = "closed"]
  /\ cleanupLog' = Append(cleanupLog, <<"close", tracked>>)
  /\ defers' = Pop(defers)
  /\ UNCHANGED <<pc, cfg, fs, workDir, env, env0, reportFaults, envFaults, parse, hostOut, tracked, envVarKeys, statusLog,
                 retval, child, cmdRes, result, runErr, runLog>>
  /\ UNCHANGED <<startSeq, seq, buf, sent, sinkProc, watcherVars>>

\* RunManaged's own goroutine while it unwinds.
TaskUnwind ==
  \/ TaskCloseBegin
  \/ tracked \in Sinks /\ CloseWait(tracked)
  \/ tracked \in Sinks /\ CloseStop(tracked)
  \/ tracked \in Sinks /\ FlushLock(tracked, "closer")
  \/ tracked \in Sinks /\ FlushSwap(tracked, "closer")
  \/ tracked \in Sinks /\ FlushSend(tracked, "closer")
  \/ TaskCloseReturn
  \/ \E s \in Sinks \ {tracked} : DeferCloseOf(s)
  \/ DeferCancel
  \/ DeferSecureDelete
  \/ SecureRemove
  \/ DeferUnsetEnv
  \/ DeferRemoveAll
  \/ Return

\* The tracked sink's line reader, readLines.
TaskReader ==
  \/ tracked \in Sinks /\ ReaderRead(tracked)
  \/ tracked \in Sinks /\ ReaderToken(tracked)
  \/ tracked \in Sinks /\ ReaderLock(tracked)
  \/ tracked \in Sinks /\ ReaderAppend(tracked)
  \/ tracked \in Sinks /\ ReaderEOF(tracked)

\* The tracked sink's flushLoop taking a tick and flushing.
TaskLoopFlush ==
  \/ tracked \in Sinks /\ LoopTick(tracked)
  \/ tracked \in Sinks /\ FlushLock(tracked, "flushLoop")
  \/ tracked \in Sinks /\ FlushSwap(tracked, "flushLoop")
  \/ tracked \in Sinks /\ FlushSend(tracked, "flushLoop")

\* The tracked sink's flushLoop taking w.done and returning.
TaskLoopDone == tracked \in Sinks /\ LoopDone(tracked)

\* RunManaged from exec.Init to its return statement. The operations of
\* TaskOps make no secondary invocation and report no outputs, so the steps of
\* the body are those of init and of the main invocation.
TaskBody ==
  \/ InitStart
  \/ InitReturn
  \/ RunDispatch
  \/ MainReturn
  \/ RunReturn
  \/ TaskWrite
  \/ TaskChildExit
  \/ TaskChildKill

TasksNext ==
  \/ TaskBody
  \/ TaskUnwind
  \/ TaskReader
  \/ TaskTick
  \/ TaskLoopFlush
  \/ TaskLoopDone
  \/ TaskWatcherTick
  \/ WatcherCtxDone
  \/ WatcherPoll
  \/ WatcherFire

\* The goroutines are scheduled fairly; a select with several ready cases
\* chooses among them at random, so a case that is ready again and again is
\* taken (w.done in flushLoop, ctx.Done() in Watcher.Start).
SpecTasks ==
  /\ TasksInit /\ [][TasksNext]_vars
  /\ WF_vars(TaskUnwind)
  /\ WF_vars(TaskReader)
  /\ WF_vars(TaskLoopFlush)
  /\ SF_vars(TaskLoopDone)
  /\ WF_vars(WatcherPoll \/ WatcherFire)
  /\ SF_vars(WatcherCtxDone)

\* SpecAttach: Executor.Init and Executor.Run, called with sinks attached by
\* SetLogWriters (as RunManaged does; the goroutines of the tracked sink are
\* followed, its reader being the Scanner of SpecScan) or with none attached
\* (as RunLocal does; tracked is "none").
LocalInit ==
  /\ sinkState = [t \in Sinks |-> "none"]
  /\ startSeq = [t \in Sinks |-> 0]
  /\ seq = [t \in Sinks |-> 0]
  /\ buf = [t \in Sinks |-> << >>]
  /\ sent = << >>
  /\ SinkProcInit
  /\ WatcherIdle
  /\ pc = "init"
  /\ \E o \in ConfigOps :
       cfg = [op |-> o, subdir |-> << >>, data |-> << >>, env |-> "absent"]
  /\ fs = Cloned(Mkdir(FsInit, TmpDir))
  /\ workDir = CloneDir
  /\ env0 = "old" /\ env = env0 /\ reportFaults = FALSE /\ envFaults = FALSE
  /\ parse = NoParse /\ hostOut = << >>
  /\ tracked = "none"
  /\ envVarKeys = << >> /\ defers = << >>
  /\ statusLog = << >>
  /\ retval = "none" /\ child = "none"
  /\ cmdRes = NoCmd /\ result = NilResult /\ runErr = FALSE
  /\ runLog = << >> /\ cleanupLog = << >>

AttachInit == TasksInitWith(ConfigOps) \/ LocalInit

\* RunLocal after exec.Init: an error is returned, without a report.
LocalInitReturn ==
  /\ tracked = "none" /\ pc = "initRet"
  /\ IF InitFailed(cmdRes)
     THEN retval' = "error" /\ pc' = "unwind"
     ELSE pc' = "run" /\ UNCHANGED retval
  /\ cmdRes' = NoCmd
  /\ UNCHANGED <<cfg, fs, workDir, env, env0, reportFaults, envFaults, parse, hostOut, tracked, envVarKeys, defers, child,
                 statusLog, result, runErr, runLog, cleanupLog>>
  /\ UNCHANGED <<sinkData, sinkProc, watcherVars>>

\* The copier of the running child writes the child's output: with sinks
\* attached to the io.MultiWriter of a bytes.Buffer and the sink, so
\* Writer.Write; with none to the bytes.Buffer alone.
AttachWrite == tracked \in Sinks /\ child \in TeedCmds /\ ScanWrite(tracked)

\* Executor.Init and Executor.Run, with the child ending by itself.
AttachExec ==
  \/ InitStart
  \/ tracked # "none" /\ InitReturn
  \/ LocalInitReturn
  \/ RunDispatch
  \/ MainReturn
  \/ SecondaryReturn
  \/ TaskChildExit

\* The line reader of the attached sink.
AttachReader ==
  \/ tracked \in Sinks /\ ScanRead(tracked)
  \/ tracked \in Sinks /\ ScanToken(tracked)
  \/ tracked \in Sinks /\ ScanTooLong(tracked)
  \/ tracked \in Sinks /\ ReaderLock(tracked)
  \/ tracked \in Sinks /\ ReaderAppend(tracked)

AttachNext == AttachExec \/ AttachWrite \/ AttachReader

\* The child ends, the executor goes on, the line reader is scheduled.
SpecAttach ==
  /\ AttachInit /\ [][AttachNext]_vars
  /\ WF_vars(AttachExec)
  /\ WF_vars(AttachReader)

\* SpecTee: one call of RunManaged in which the host-side writer of every
\* line a child writes is followed; the watcher never observes a cancellation.
TeeInit == RunStart(FALSE)

TeeNext ==
  \/ FetchConfig
  \/ ReportRunning
  \/ ResolveVersion
  \/ PrepareSource
  \/ SetEnv
  \/ WriteTfvars
  \/ StartWatcher
  \/ NewStdoutWriter
  \/ NewStderrWriter
  \/ InitStart
  \/ InitReturn
  \/ RunDispatch
  \/ MainReturn
  \/ SecondaryReturn
  \/ RunReturn
  \/ ReportOutputs
  \/ ChildWriteTee
  \/ ChildExit
  \/ DeferClose
  \/ DeferCancel
  \/ DeferSecureDelete
  \/ SecureRemove
  \/ DeferUnsetEnv
  \/ DeferRemoveAll
  \/ Return
  \/ WatcherCtxDone

SpecTee == TeeInit /\ [][TeeNext]_vars

\* SpecRun with the runtime's killing of a child whose context is done (the
\* goroutine exec.CommandContext starts is scheduled).
SpecRunFair == SpecRun /\ WF_vars(ChildKill)

(***************************************************************************)
(* Resource delta extraction: Executor.parseResourceCounts                 *)
(***************************************************************************)
\* Strings are sequences of characters here, so that strings.Join and
\* strings.Contains are computed as the code computes them.
ActCreate == <<"c", "r", "e", "a", "t", "e">>
ActUpdate == <<"u", "p", "d", "a", "t", "e">>
ActDelete == <<"d", "e", "l", "e", "t", "e">>
ActNoOp == <<"n", "o", "-", "o", "p">>
ActRead == <<"r", "e", "a", "d">>

\* The actions of a resource change in the plan representation.
PlanActions == {ActCreate, ActUpdate, ActDelete, ActNoOp, ActRead}

\* strings.Join(elems, ",").
RECURSIVE StringsJoin(_)
StringsJoin(elems) ==
  IF elems = << >> THEN << >>
  ELSE IF Len(elems) = 1 THEN elems[1]
  ELSE elems[1] \o <<",">> \o StringsJoin(Tail(elems))

\* strings.Contains(s, substr).
StringsContains(s, substr) ==
  \E i \in 0..(Len(s) - Len(substr)) : SubSeq(s, i + 1, i + Len(substr)) = substr

\* The zero counters of a fresh RunResult.
ZeroCounts == [ResourcesToAdd |-> 0, ResourcesToChange |-> 0, ResourcesToDestroy |-> 0]

\* The replacement case counting the created resource only.
CountChange_ReplaceAddsOnly(r, actionList) ==
  LET actions == StringsJoin(actionList) IN
  IF actions = ActCreate THEN [r EXCEPT !.ResourcesToAdd = @ + 1]
  ELSE IF actions = ActUpdate THEN [r EXCEPT !.ResourcesToChange = @ + 1]
  ELSE IF actions = ActDelete THEN [r EXCEPT !.ResourcesToDestroy = @ + 1]
  ELSE IF StringsContains(actions, ActCreate) /\ StringsContains(actions, ActDelete)
       THEN [r EXCEPT !.ResourcesToAdd = @ + 1]
  ELSE r

\* parseResourceCounts, the body of the loop: the switch over the joined
\* actions of one resource change.
CountChange(r, actionList) ==
  LET actions == StringsJoin(actionList) IN
  IF actions = ActCreate THEN [r EXCEPT !.ResourcesToAdd = @ + 1]
  ELSE IF actions = ActUpdate THEN [r EXCEPT !.ResourcesToChange = @ + 1]
  ELSE IF actions = ActDelete THEN [r EXCEPT !.ResourcesToDestroy = @ + 1]
  ELSE IF StringsContains(actions, ActCreate) /\ StringsContains(actions, ActDelete)
       THEN [r EXCEPT !.ResourcesToDestroy = @ + 1, !.ResourcesToAdd = @ + 1]
  ELSE r

\* The action lists a resource change is given: none, one action, two
\* actions, and a list of three.
ActionLists ==
  {<< >>} \cup {<<a>> : a \in PlanActions}
    \cup {<<a, b>> : a, b \in PlanActions}
    \cup {<<ActCreate, ActNoOp, ActDelete>>}

\* The plan of TestParseResourceCounts.
TestPlan ==
  <<<<ActCreate>>, <<ActCreate>>, <<ActUpdate>>, <<ActDelete>>,
    <<ActDelete, ActCreate>>>>

RECURSIVE PlansOf(_)
PlansOf(n) ==
  IF n = 0 THEN {<< >>}
  ELSE PlansOf(n - 1)
         \cup {Append(q, al) : q \in {r \in PlansOf(n - 1) : Len(r) = n - 1},
                               al \in ActionLists}

Plans == PlansOf(MaxChanges) \cup {TestPlan}

\* What result.PlanJSON holds: nothing, text that does not decode, or a plan.
PlanJSONKinds == {"empty", "invalid", "plan"}

\* SpecCounts: parseResourceCounts on a fresh RunResult whose PlanJSON is set.
CountsInit ==
  /\ \E k \in PlanJSONKinds, q \in Plans :
       /\ k # "plan" => q = << >>
       /\ parse = [fn |-> "parseResourceCounts", pc |-> "start", json |-> k,
                   plan |-> q, i |-> 0, result |-> ZeroCounts]
  /\ pc = "idle" /\ cfg = NoCfg /\ fs = FsInit /\ workDir = << >>
  /\ env = "unset" /\ env0 = "unset" /\ reportFaults = FALSE
  /\ envVarKeys = << >> /\ defers = << >>
  /\ statusLog = << >> /\ retval = "none" /\ child = "none"
  /\ cmdRes = NoCmd /\ result = NilResult /\ runErr = FALSE
  /\ runLog = << >> /\ cleanupLog = << >> /\ hostOut = << >> /\ tracked = "none"
  /\ envFaults = FALSE
  /\ WatcherIdle
  /\ sinkState = [t \in Sinks |-> "none"]
  /\ startSeq = [t \in Sinks |-> 0] /\ seq = [t \in Sinks |-> 0]
  /\ buf = [t \in Sinks |-> <<>>] /\ sent = <<>>
  /\ SinkProcInit

parseOnly == <<sinkData, sinkProc, watcherVars, pc, cfg, fs, workDir, env, env0,
               reportFaults, envFaults, hostOut, tracked, envVarKeys, defers, statusLog, retval,
               child, cmdRes, result, runErr, runLog, cleanupLog>>

\* if result.PlanJSON == "" { return }; if json.Unmarshal fails { return }.
CountsDecode ==
  /\ parse.fn = "parseResourceCounts" /\ parse.pc = "start"
  /\ parse' = [parse EXCEPT !.pc = IF parse.json = "plan" THEN "loop" ELSE "done"]
  /\ UNCHANGED parseOnly

\* for _, rc := range plan.ResourceChanges: one iteration.
CountsStep ==
  /\ parse.fn = "parseResourceCounts" /\ parse.pc = "loop"
  /\ parse.i < Len(parse.plan)
  /\ parse' = [parse EXCEPT !.i = @ + 1,
                            !.result = CountChange(@, parse.plan[parse.i + 1])]
  /\ UNCHANGED parseOnly

\* The loop ends and parseResourceCounts returns.
CountsReturn ==
  /\ parse.fn = "parseResourceCounts" /\ parse.pc = "loop"
  /\ parse.i = Len(parse.plan)
  /\ parse' = [parse EXCEPT !.pc = "done"]
  /\ UNCHANGED parseOnly

CountsNext == CountsDecode \/ CountsStep \/ CountsReturn

SpecCounts == CountsInit /\ [][CountsNext]_vars

(***************************************************************************)
(* Resource delta extraction: parseSummaryCounts                           *)
(***************************************************************************)
DigitSeq == <<"0", "1", "2", "3", "4", "5", "6", "7", "8", "9">>

IsDigit(c) == \E d \in DOMAIN DigitSeq : DigitSeq[d] = c

DigitVal(c) == (CHOOSE d \in DOMAIN DigitSeq : DigitSeq[d] = c) - 1

\* The decimal text of a number below 100.
Dec(n) ==
  IF n < 10 THEN <<DigitSeq[n + 1]>>
  ELSE <<DigitSeq[(n \div 10) + 1], DigitSeq[(n % 10) + 1]>>

\* strconv.Atoi on a run of digits.
RECURSIVE Atoi(_)
Atoi(ds) ==
  IF ds = << >> THEN 0
  ELSE Atoi(SubSeq(ds, 1, Len(ds) - 1)) * 10 + DigitVal(ds[Len(ds)])

KwAdded == <<"a", "d", "d", "e", "d">>
KwChanged == <<"c", "h", "a", "n", "g", "e", "d">>
KwDestroyed == <<"d", "e", "s", "t", "r", "o", "y", "e", "d">>

\* summaryRe, the alternation (added|changed|destroyed).
SummaryKeywords == {KwAdded, KwChanged, KwDestroyed}

HasPrefixAt(s, p, w) ==
  p + Len(w) - 1 <= Len(s) /\ SubSeq(s, p, p + Len(w) - 1) = w

\* The last index of the run of digits that starts at i.
DigitRunEnd(s, i) ==
  CHOOSE j \in i..Len(s) :
    /\ \A k \in i..j : IsDigit(s[k])
    /\ j = Len(s) \/ ~IsDigit(s[j + 1])

\* summaryRe matches at i: digits, one space, a keyword.
MatchAt(s, i) ==
  /\ IsDigit(s[i])
  /\ LET j == DigitRunEnd(s, i) IN
       /\ j + 1 <= Len(s) /\ s[j + 1] = " "
       /\ \E w \in SummaryKeywords : HasPrefixAt(s, j + 2, w)

\* The submatches of the match at i: the number, the keyword, and the index
\* after the match.
SubmatchAt(s, i) ==
  LET j == DigitRunEnd(s, i)
      w == CHOOSE w \in SummaryKeywords : HasPrefixAt(s, j + 2, w)
  IN [n |-> Atoi(SubSeq(s, i, j)), kw |-> w, next |-> j + 2 + Len(w)]

\* parseSummaryCounts, the switch on match[2].
SetCount(r, kw, n) ==
  IF kw = KwAdded THEN [r EXCEPT !.ResourcesToAdd = n]
  ELSE IF kw = KwChanged THEN [r EXCEPT !.ResourcesToChange = n]
  ELSE IF kw = KwDestroyed THEN [r EXCEPT !.ResourcesToDestroy = n]
  ELSE r

\* The numbers the summary lines of the model carry.
SummaryNumbers == {0, 1, 12}

\* The pieces of text the output is made of: a full summary line, the
\* summary line of a destroy, a line without numbers, a near miss.
OutputPieces ==
  [kind : {"summary"}, n : SummaryNumbers, m : SummaryNumbers, k : SummaryNumbers]
    \cup [kind : {"destroyed"}, n : {0}, m : {0}, k : {3}]
    \cup [kind : {"plain", "nearMiss"}, n : {0}, m : {0}, k : {0}]

\* The text of a piece.
PieceText(e) ==
  IF e.kind = "summary"
  THEN <<"R", ":", " ">> \o Dec(e.n) \o <<" ">> \o KwAdded \o <<",", " ">>
         \o Dec(e.m) \o <<" ">> \o KwChanged \o <<",", " ">>
         \o Dec(e.k) \o <<" ">> \o KwDestroyed \o <<".", "LF">>
  ELSE IF e.kind = "destroyed"
  THEN <<"R", ":", " ">> \o Dec(e.k) \o <<" ">> \o KwDestroyed \o <<".", "LF">>
  ELSE IF e.kind = "nearMiss"
  THEN <<"7", " ", " ">> \o KwAdded \o <<"LF">>
  ELSE <<"o", "k", "LF">>

RECURSIVE OutputText(_)
OutputText(es) ==
  IF es = << >> THEN << >> ELSE PieceText(Head(es)) \o OutputText(Tail(es))

RECURSIVE OutputsOf(_)
OutputsOf(n) ==
  IF n = 0 THEN {<< >>}
  ELSE OutputsOf(n - 1)
         \cup {Append(q, e) : q \in {r \in OutputsOf(n - 1) : Len(r) = n - 1},
                              e \in OutputPieces}

\* SpecSummary: parseSummaryCounts(stdout.String(), result) on the fresh
\* result of an apply or destroy.
SummaryInit ==
  /\ \E es \in OutputsOf(MaxPieces) :
       parse = [fn |-> "parseSummaryCounts", pc |-> "loop", pieces |-> es,
                output |-> OutputText(es), pos |-> 1, result |-> ZeroCounts]
  /\ pc = "idle" /\ cfg = NoCfg /\ fs = FsInit /\ workDir = << >>
  /\ env = "unset" /\ env0 = "unset" /\ reportFaults = FALSE
  /\ envVarKeys = << >> /\ defers = << >>
  /\ statusLog = << >> /\ retval = "none" /\ child = "none"
  /\ cmdRes = NoCmd /\ result = NilResult /\ runErr = FALSE
  /\ runLog = << >> /\ cleanupLog = << >> /\ hostOut = << >> /\ tracked = "none"
  /\ envFaults = FALSE
  /\ WatcherIdle
  /\ sinkState = [t \in Sinks |-> "none"]
  /\ startSeq = [t \in Sinks |-> 0] /\ seq = [t \in Sinks |-> 0]
  /\ buf = [t \in Sinks |-> <<>>] /\ sent = <<>>
  /\ SinkProcInit

\* The indices at or after pos where summaryRe matches.
MatchesFrom(s, pos) == {i \in pos..Len(s) : MatchAt(s, i)}

\* for _, match := range summaryRe.FindAllStringSubmatch(output, -1): the
\* next leftmost match and the switch on it.
SummaryStep ==
  /\ parse.fn = "parseSummaryCounts" /\ parse.pc = "loop"
  /\ MatchesFrom(parse.output, parse.pos) # {}
  /\ LET i == CHOOSE i \in MatchesFrom(parse.output, parse.pos) :
                 \A k \in MatchesFrom(parse.output, parse.pos) : i <= k
         sm == SubmatchAt(parse.output, i)
     IN parse' = [parse EXCEPT !.pos = sm.next,
                               !.result = SetCount(@, sm.kw, sm.n)]
  /\ UNCHANGED parseOnly

\* No further match: parseSummaryCounts returns.
SummaryReturn ==
  /\ parse.fn = "parseSummaryCounts" /\ parse.pc = "loop"
  /\ MatchesFrom(parse.output, parse.pos) = {}
  /\ parse' = [parse EXCEPT !.pc = "done"]
  /\ UNCHANGED parseOnly

SummaryNext == SummaryStep \/ SummaryReturn

SpecSummary == SummaryInit /\ [][SummaryNext]_vars

(***************************************************************************)
(* Claims                                                                  *)
(***************************************************************************)
\* The sequence numbers handed to SendLogs so far for stream s.
Handed(s) ==
  UNION {{sent[i].entries[j].Sequence : j \in 1..Len(sent[i].entries)} :
           i \in {k \in 1..Len(sent) : sent[k].stream = s}}

\* The sequence numbers of the entries the line reader of s has created.
Created(s) == (startSeq[s] + 1)..seq[s]

\* C1: when Close has returned, every log entry created from the bytes written
\* before Close was called (every entry the reader created: a Write after
\* pw.Close is refused) has been handed to a SendLogs call, whether it was
\* still in the buffer or already detached by a flush.
C1_CloseHandsEverything ==
  closerPc = "returned" =>
    \A s \in Sinks : sinkState[s] = "open" => Created(s) \subseteq Handed(s)

\* C8: a poll that observes 'cancelled' makes the watcher call the cancel
\* function exactly once and poll no more: at most one call over Start, no
\* poll after the one that observed 'cancelled' (so a first poll observing
\* it is followed by the call before any second poll), and the watcher has
\* made the call when it returns.
C8_FireOnceAndStop ==
  /\ wCancelCalls <= 1
  /\ firstCancelAt # 0 => nPolls = firstCancelAt /\ wPc \in {"fire", "returned"}
  /\ firstCancelAt # 0 /\ wPc = "returned" => wCancelCalls = 1
  /\ wCancelCalls = 1 => wPc = "returned"

\* C8 witness: the first poll observed 'cancelled', the watcher fired and
\* returned.
C8_Witness ==
  firstCancelAt = 1 /\ nPolls = 1 /\ wCancelCalls = 1 /\ wPc = "returned"

\* C9: a poll that errors or observes a status other than 'cancelled' does
\* not fire the signal and leaves the watcher selecting for the next tick; a
\* watcher none of whose polls observed 'cancelled' never fires, and it
\* returns only because its context is done.
C9_NotCancelledInv ==
  /\ firstCancelAt = 0 => wCancelCalls = 0 /\ wPc # "fire"
  /\ firstCancelAt = 0 /\ wPc = "returned" => cancelCtxDone

C9_NotCancelledStep ==
  (nPolls' = nPolls + 1 /\ lastResp' # "cancelled")
    => (wPc' = "select" /\ wCancelCalls' = wCancelCalls /\ firstCancelAt' = firstCancelAt)

C9_ErrorsNeverFire == []C9_NotCancelledInv /\ [][C9_NotCancelledStep]_vars

\* C9 witness: polls met each kind of error and 'running', and the watcher
\* still selects, not having fired.
C9_Witness ==
  /\ nPolls = MaxPolls /\ lastResp \in PollErrors /\ firstCancelAt = 0
  /\ wPc = "select" /\ wCancelCalls = 0 /\ ~cancelCtxDone

\* C10: once the watcher's context is done the watcher makes no further
\* isCancelled call and no cancelFunc call.
C10_NoPollAfterScopeEnd ==
  [][cancelCtxDone => (nPolls' = nPolls /\ wCancelCalls' = wCancelCalls)]_vars

\* The calls cleanup made so far.
CleanupDone(c) == \E i \in DOMAIN cleanupLog : cleanupLog[i] = c
CleanupIndex(c) == CHOOSE i \in DOMAIN cleanupLog : cleanupLog[i] = c
StatusReported(st) == \E i \in DOMAIN statusLog : statusLog[i].status = st

\* C2: in a managed run no two log entries, across both streams, carry the
\* same sequence number, and sequence numbers strictly increase in the order
\* the lines are observed. (Violated: both sinks start at 0.)
C2_RunSequencesUnique ==
  \A i, j \in DOMAIN runLog : i < j => runLog[i].Sequence < runLog[j].Sequence

\* C3: once RunManaged has returned both sinks it created are closed, and the
\* stdout sink is never closed while the stderr sink is still open.
\* (Violated: the deferred calls run stdout's Close first.)
C3_StderrClosedBeforeStdout ==
  /\ pc = "done" => \A s \in Sinks : sinkState[s] \in {"none", "closed"}
  /\ sinkState["stdout"] = "closed" => sinkState["stderr"] = "closed"

\* C4: when RunManaged has returned, the temporary root directory source
\* preparation created no longer exists, whether preparation succeeded (for
\* every working-directory sub-path) or failed. (Violated for a non-empty
\* sub-path.)
C4_TempTreeRemoved ==
  pc = "done" => ~Exists(fs, TmpDir)

\* C5: on every exit path after the input-variable file was written, the
\* file is gone when RunManaged returns; the step that overwrites it leaves
\* zeros of the length written; the only step in which the file disappears
\* is SecureDelete's remove, finding it zeroed, with the recursive removal of
\* the tree still to come.
C5_GoneAtReturn ==
  pc = "done" => ~Exists(fs, TfvarsPath(workDir))

C5_EraseStep ==
  LET tf == TfvarsPath(workDir)
  IN /\ (Exists(fs, tf) /\ Exists(fs', tf) /\ fs'[tf] # fs[tf])
          => /\ fs[tf] = cfg.data
             /\ fs'[tf] = Zeros(Len(cfg.data))
     /\ (Exists(fs, tf) /\ ~Exists(fs', tf))
          => /\ fs[tf] = Zeros(Len(cfg.data))
             /\ pc = "secureRemove"
             /\ ~CleanupDone(<<"removeAll">>)
             /\ \E i \in DOMAIN defers : defers[i] = "removeAll"

C5_SecureEraseBeforeRemoval == []C5_GoneAtReturn /\ [][C5_EraseStep]_vars

\* C5 witness: a cancelled run has returned; the file was overwritten, then
\* removed, then the tree was removed.
C5_Witness ==
  /\ pc = "done" /\ wCancelCalls = 1 /\ retval = "error"
  /\ CleanupDone(<<"overwrite">>) /\ CleanupDone(<<"remove">>)
  /\ CleanupDone(<<"removeAll">>)
  /\ CleanupIndex(<<"overwrite">>) < CleanupIndex(<<"remove">>)
  /\ CleanupIndex(<<"remove">>) < CleanupIndex(<<"removeAll">>)
  /\ ~Exists(fs, TfvarsPath(workDir))

\* C6: when RunManaged has ended other than by returning nil, it returned an
\* error and a 'failed' status report was attempted. (Violated: an
\* unsupported operation ends in a nil dereference before the report; a
\* failed config fetch returns without a report.)
C6_FailedReported ==
  pc = "done" /\ retval # "nil" => retval = "error" /\ StatusReported("failed")

\* C7: the cancellation signal, once fired, stays fired; the watcher fires it
\* at most once; no child process is started once it has fired; every child
\* in flight is bound to it, and a child in flight when it has fired ends
\* (killed, unless it ended by itself first).
C7_SignalKillsChildren ==
  /\ [][cancelCtxDone => cancelCtxDone']_vars
  /\ [][(child = "none" /\ child' # "none") => ~cancelCtxDone]_vars
  /\ [](wCancelCalls <= 1)
  /\ [](child # "none" /\ cancelCtxDone => ChildCtxDone(child))
  /\ ((child # "none" /\ cancelCtxDone) ~> (child = "none"))

\* C7 witness: the watcher fired while the secondary `show` was in flight.
C7_Witness ==
  child = "show" /\ cancelCtxDone /\ wCancelCalls = 1
\* C11: when the signal has fired and the init child or the main child was
\* killed (cmd.Run returned exit code -1), RunManaged goes on to attempt a
\* 'failed' report, made with a context the signal did not cancel, and
\* returns an error; the step that fires the signal leaves the sinks as they
\* are; a sink is closed only by the deferred Close, whose final flush hands
\* over what was buffered.
C11_KilledInitReported ==
  (pc = "initRet" /\ cmdRes.code = -1 /\ pc' # pc)
    => /\ pc' = "unwind" /\ retval' = "error"
       /\ statusLog' = Append(statusLog, [kind |-> "status", status |-> "failed",
                                          code |-> 1, ctxDone |-> FALSE, ok |-> TRUE])

C11_KilledMainReported ==
  (pc \in {"unwind", "done"} /\ ~result.nil /\ result.ExitCode = -1)
    => /\ retval = "error"
       /\ statusLog[Len(statusLog)] =
            [kind |-> "status", status |-> "failed", code |-> -1, ctxDone |-> FALSE, ok |-> TRUE]

C11_FireLeavesSinks ==
  (~cancelCtxDone /\ cancelCtxDone') => (sinkState' = sinkState /\ buf' = buf /\ sent' = sent)

C11_ClosedByCleanup ==
  /\ \A s \in Sinks : sinkState[s] = "closed" =>
        /\ CleanupDone(<<"close", s>>)
        /\ buf[s] = << >>
        /\ \A i \in DOMAIN runLog : runLog[i].Stream = s =>
             \E j \in DOMAIN sent : \E k \in DOMAIN sent[j].entries :
               /\ sent[j].by = "closer"
               /\ sent[j].entries[k].Sequence = runLog[i].Sequence
               /\ sent[j].entries[k].Stream = s
  /\ pc = "done" => \A s \in Sinks : sinkState[s] # "open"

C11_ReportAfterCancel ==
  /\ [][C11_KilledInitReported]_vars
  /\ []C11_KilledMainReported
  /\ [][C11_FireLeavesSinks]_vars
  /\ []C11_ClosedByCleanup

\* C11 witness: the watcher fired, the main child was killed after writing a
\* line, 'failed' was reported with code -1 and both sinks were closed.
C11_Witness ==
  /\ pc = "done" /\ wCancelCalls = 1 /\ ~result.nil /\ result.ExitCode = -1
  /\ StatusReported("failed") /\ retval = "error" /\ Len(runLog) > 0
  /\ \A s \in Sinks : sinkState[s] = "closed"

\* C12: for plan, when the main child's cmd.Run returned nil or an ExitError,
\* Executor.plan's error is nil exactly for exit code 0 or 2 and the result
\* carries the exit code; RunManaged then reports 'succeeded' with that code
\* when the error is nil, 'failed' with that code otherwise.
C12_PlanMainStep ==
  (pc = "mainRet" /\ cfg.op = "plan" /\ cmdRes.err \in {"none", "exit"} /\ pc' # pc)
    => /\ runErr' = (cmdRes.code \notin {0, 2})
       /\ result'.ExitCode = cmdRes.code

C12_PlanReportStep ==
  (pc = "runRet" /\ cfg.op = "plan" /\ pc' # pc)
    => /\ statusLog' = Append(statusLog,
            [kind |-> "status", status |-> IF runErr THEN "failed" ELSE "succeeded",
             code |-> result.ExitCode, ctxDone |-> FALSE, ok |-> TRUE])
       /\ retval' = IF runErr THEN "error" ELSE "nil"

C12_PlanExitCodes == [][C12_PlanMainStep]_vars /\ [][C12_PlanReportStep]_vars

\* C12 witness: a plan whose child exited with code 2 was reported
\* 'succeeded' with exit code 2.
C12_Witness ==
  /\ pc = "done" /\ cfg.op = "plan" /\ retval = "nil" /\ result.ExitCode = 2
  /\ statusLog[Len(statusLog)].status = "succeeded"
  /\ statusLog[Len(statusLog)].code = 2

\* C13: for apply and destroy, when the main child's cmd.Run returned nil or
\* an ExitError, the executor's error is nil exactly for exit code 0 and the
\* result carries the exit code; with an error RunManaged reports 'failed'
\* with that code and returns an error.
C13_MainStep ==
  (pc = "mainRet" /\ cfg.op \in {"apply", "destroy"}
     /\ cmdRes.err \in {"none", "exit"} /\ pc' # pc)
    => /\ runErr' = (cmdRes.code # 0)
       /\ result'.ExitCode = cmdRes.code

C13_ReportStep ==
  (pc = "runRet" /\ cfg.op \in {"apply", "destroy"} /\ pc' # pc)
    => /\ statusLog' = Append(statusLog,
            [kind |-> "status", status |-> IF runErr THEN "failed" ELSE "succeeded",
             code |-> result.ExitCode, ctxDone |-> FALSE, ok |-> TRUE])
       /\ runErr => retval' = "error" /\ pc' = "unwind"

C13_ApplyDestroyExitCodes == [][C13_MainStep]_vars /\ [][C13_ReportStep]_vars

\* C13 witness: an apply whose child exited with code 2 was reported 'failed'
\* with exit code 2.
C13_Witness ==
  /\ pc = "done" /\ cfg.op = "apply" /\ retval = "error" /\ result.ExitCode = 2
  /\ statusLog[Len(statusLog)].status = "failed"
  /\ statusLog[Len(statusLog)].code = 2

\* C14: the secondary invocation (show, output) never changes Run's error or
\* exit code; when it fails the result stays as the main child left it (no
\* structured plan, deltas zero, no outputs); a plan result without
\* structured plan has zero deltas; an outputs report is made only for
\* outputs that were retrieved and decoded.
C14_SecondaryStep ==
  (pc = "secRet" /\ pc' # pc)
    => /\ runErr' = runErr
       /\ result'.ExitCode = result.ExitCode
       /\ cmdRes.err # "none" => result' = result

C14_SecondaryInv ==
  /\ cfg.op = "plan" /\ result.PlanJSON = "" => result.Deltas = "zero"
  /\ pc \in {"secRun", "secRet"} =>
       result.PlanJSON = "" /\ result.Outputs = "nil"
  /\ (\E i \in DOMAIN statusLog : statusLog[i].kind = "outputs")
       => cfg.op = "apply" /\ result.Outputs = "map"
  /\ pc = "reportOutputs" => result.Outputs = "map"

C14_SecondaryFailuresSwallowed == [][C14_SecondaryStep]_vars /\ []C14_SecondaryInv

\* C14 witness: an apply succeeded, its output retrieval failed, and the run
\* returned nil without an outputs report.
C14_Witness ==
  /\ pc = "done" /\ cfg.op = "apply" /\ retval = "nil" /\ result.Outputs = "nil"
  /\ statusLog[Len(statusLog)].status = "succeeded"

\* C15: whatever the transport returns, a report is followed by the phase
\* that follows it when it succeeds ('running': resolving the version;
\* 'succeeded': the outputs report if there are outputs, else the return of
\* nil; outputs: the return of nil; 'failed': the return of the phase's
\* error), a log flush leaves RunManaged where it is, RunManaged returns an
\* error only after a 'failed' report or a failed config fetch, and a run
\* that reported 'succeeded' returns nil with every deferred call run.
C15_ReportStep ==
  (Len(statusLog') = Len(statusLog) + 1)
    => LET r == statusLog'[Len(statusLog')]
       IN CASE r.status = "running" -> pc' = "resolveVersion" /\ retval' = retval
            [] r.status = "succeeded" ->
                 IF result.Outputs # "nil"
                 THEN pc' = "reportOutputs" /\ retval' = retval
                 ELSE pc' = "unwind" /\ retval' = "nil"
            [] r.status = "outputs" -> pc' = "unwind" /\ retval' = "nil"
            [] OTHER -> pc' = "unwind" /\ retval' = "error"

C15_FlushStep ==
  (sent' # sent) => (pc' = pc /\ retval' = retval /\ defers' = Pop(defers))

C15_Outcome ==
  /\ retval = "error" =>
       statusLog = << >> \/ statusLog[Len(statusLog)].status = "failed"
  /\ pc = "done" /\ StatusReported("succeeded") =>
       /\ retval = "nil" /\ defers = << >>
       /\ result.Outputs # "nil" => StatusReported("outputs")

C15_TransportFailuresIgnored ==
  [][C15_ReportStep]_vars /\ [][C15_FlushStep]_vars /\ []C15_Outcome

\* C15 witness: the 'running', 'succeeded' and outputs reports and a log
\* flush all failed, and RunManaged returned nil after all its cleanup.
C15_Witness ==
  /\ pc = "done" /\ retval = "nil" /\ Len(statusLog) = 3
  /\ \A i \in DOMAIN statusLog : ~statusLog[i].ok
  /\ \E j \in DOMAIN sent : ~sent[j].ok
  /\ CleanupDone(<<"removeAll">>)

\* The number of SendLogs calls that carried the entry of s with sequence n.
SendCount(s, n) ==
  Cardinality({jk \in (DOMAIN sent) \X (1..(seq[s] - startSeq[s])) :
                 /\ sent[jk[1]].stream = s
                 /\ jk[2] <= Len(sent[jk[1]].entries)
                 /\ sent[jk[1]].entries[jk[2]].Sequence = n})

\* Close has returned and no flush is under way.
FlushesComplete == closerPc = "returned" /\ \A p \in FlushCallers : flushPc[p] = "idle"

\* C16: no log entry is ever carried by two SendLogs calls, a failed call
\* included; once Close has returned and every flush has completed, each
\* entry the line reader created has been carried by exactly one call and
\* nothing is left in the buffer.
C16_ExactlyOneCall ==
  \A s \in Sinks : sinkState[s] = "open" =>
    /\ \A n \in Created(s) : SendCount(s, n) <= 1
    /\ FlushesComplete =>
         /\ buf[s] = << >>
         /\ \A n \in Created(s) : SendCount(s, n) = 1

\* C16 witness: two entries were created; the timer flush sent one in a call
\* that failed, Close's flush the other; all flushes have completed.
C16_Witness ==
  /\ FlushesComplete
  /\ \E s \in Sinks : sinkState[s] = "open" /\ seq[s] = startSeq[s] + 2
  /\ \E j \in DOMAIN sent : sent[j].by = "flushLoop" /\ ~sent[j].ok
  /\ \E j \in DOMAIN sent : sent[j].by = "closer"

FlushSink == CHOOSE s \in Sinks : Open(s)

BatchLen == seq[FlushSink] - startSeq[FlushSink]

CallsFor(k) == (k + ChunkSize - 1) \div ChunkSize

\* C18, each call: call j of the flush carries the entries
\* (j-1)*100+1 .. min(j*100, k) of the batch and nothing else, so it holds
\* between 1 and 100 entries, follows the call before it without gap or
\* overlap, and a call that failed is not made again.
C18_CallsInOrder ==
  \A j \in DOMAIN sent :
    /\ Len(sent[j].entries) = Min(ChunkSize, BatchLen - (j - 1) * ChunkSize)
    /\ Len(sent[j].entries) \in 1..ChunkSize
    /\ \A i \in DOMAIN sent[j].entries :
         sent[j].entries[i].Sequence = startSeq[FlushSink] + (j - 1) * ChunkSize + i

\* C18, the count: a flush under way has made fewer than ceil(k/100) calls,
\* and once the flush that took the batch is over exactly ceil(k/100) calls
\* were made, whatever each of them returned.
C18_CallCount ==
  /\ (\E p \in FlushCallers : flushPc[p] = "send")
       => Len(sent) < CallsFor(BatchLen)
  /\ (sent # <<>> /\ \A p \in FlushCallers : flushPc[p] # "send")
       => Len(sent) = CallsFor(BatchLen)

\* C18: a flush of k >= 1 entries makes exactly ceil(k/100) SendLogs calls of
\* at most 100 entries each, in order, without gap or overlap; a failed call
\* is not retried and the chunks after it are still sent.
C18_ChunkedFlush == C18_CallsInOrder /\ C18_CallCount

\* C18 witness: a batch of more than 200 entries went out in three calls, the
\* first two of which failed.
C18_Witness ==
  /\ BatchLen > 2 * ChunkSize
  /\ Len(sent) = 3
  /\ ~sent[1].ok /\ ~sent[2].ok /\ sent[3].ok
  /\ \A p \in FlushCallers : flushPc[p] = "idle"

\* C19, one attempt: every call is made by the same flush, which took all N
\* entries at once.
C19_OneAttempt ==
  /\ \A i, j \in DOMAIN sent : sent[i].by = sent[j].by
  /\ \A p \in FlushCallers : batch[p] # <<>> => Len(batch[p]) = BatchLen
  /\ Cardinality({p \in FlushCallers : batch[p] # <<>>}) <= 1

\* The number of entries the first j calls carried, and the sequence numbers
\* all the calls carried.
RECURSIVE EntriesSent(_)
EntriesSent(j) == IF j = 0 THEN 0 ELSE Len(sent[j].entries) + EntriesSent(j - 1)

SeqsSent ==
  UNION {{sent[j].entries[i].Sequence : i \in DOMAIN sent[j].entries} :
           j \in DOMAIN sent}

\* C19, coverage: no entry is ever in two calls and no call holds more than
\* 100; once Close has returned and no flush is under way, every one of the N
\* entries was in exactly one call.
C19_AllCovered ==
  /\ Cardinality(SeqsSent) = EntriesSent(Len(sent))
  /\ SeqsSent \subseteq Created(FlushSink)
  /\ \A j \in DOMAIN sent : Len(sent[j].entries) <= ChunkSize
  /\ (closerPc = "returned" /\ \A p \in FlushCallers : flushPc[p] = "idle")
       => SeqsSent = Created(FlushSink)

\* C19: closing a sink with N buffered entries gives exactly one flush attempt
\* covering all N entries in chunks of at most 100, however Close interleaves
\* with the timer's flush.
C19_CloseFlushesOnce == C19_OneAttempt /\ C19_AllCovered

\* C19 witness: Close has returned, the timer's flush had taken the whole
\* batch of more than 200 entries, and the flush of Close found nothing.
C19_Witness ==
  /\ closerPc = "returned"
  /\ BatchLen > 2 * ChunkSize
  /\ Len(sent) = 3
  /\ \A j \in DOMAIN sent : sent[j].by = "flushLoop"
  /\ \A p \in FlushCallers : flushPc[p] = "idle"


\* The entries of stream s wherever they are: buffered, detached or sent.
EntriesOf(s) ==
  LET all == UNION {{buf[t][i] : i \in DOMAIN buf[t]} : t \in Sinks}
               \cup UNION {{batch[p][i] : i \in DOMAIN batch[p]} : p \in FlushCallers}
               \cup UNION {{sent[j].entries[i] : i \in DOMAIN sent[j].entries} :
                             j \in DOMAIN sent}
  IN {e \in all : e.Stream = s}

\* C20: with the second sink constructed with the first's final Sequence(),
\* no sequence number is assigned by both sinks and every number the second
\* assigns is above every number the first assigns, so the merged numbers
\* strictly increase; within a sink the numbers are start+1, start+2, ...
C20_ChainedSequencesDisjoint ==
  sinkState[ChainSecond] = "open" =>
    /\ Created(ChainFirst) \cap Created(ChainSecond) = {}
    /\ \A n \in Created(ChainFirst), m \in Created(ChainSecond) : n < m
    /\ \A e \in EntriesOf(ChainFirst), f \in EntriesOf(ChainSecond) :
         e.Sequence < f.Sequence
    /\ \A s \in Sinks : \A i \in DOMAIN buf[s] :
         /\ buf[s][i].Sequence \in Created(s)
         /\ i > 1 => buf[s][i].Sequence = buf[s][i - 1].Sequence + 1

\* C20 witness: both sinks have assigned two numbers each, the second while
\* a flush of the first was still sending.
C20_Witness ==
  /\ sinkState[ChainSecond] = "open"
  /\ Cardinality(Created(ChainFirst)) = 2
  /\ Cardinality(Created(ChainSecond)) = 2
  /\ Cardinality(EntriesOf(ChainFirst)) = 2
  /\ Cardinality(EntriesOf(ChainSecond)) = 2
  /\ \E p \in FlushCallers : flushPc[p] = "send"


\* The sequence numbers of a sequence of entries.
SeqsIn(b) == {b[i].Sequence : i \in DOMAIN b}

\* The part of the batch of flush p not yet handed to SendLogs.
Unsent(p) == SubSeq(batch[p], flushIdx[p] + 1, Len(batch[p]))

\* C21, the state: Sequence() is the start value plus the number of entries
\* created; the entries of the sink (buffered, detached, handed over) are one
\* per created number, tagged with the sink's stream; the buffer and every
\* batch hold them in increasing order.
C21_OneEntryPerLine ==
  \A s \in Sinks : Open(s) =>
    /\ Sequence(s) >= startSeq[s]
    /\ SeqsIn(buf[s]) \cup Handed(s)
         \cup UNION {SeqsIn(Unsent(p)) : p \in FlushCallers} = Created(s)
    /\ Len(buf[s]) + EntriesSent(Len(sent)) + Len(Unsent("flushLoop"))
         + Len(Unsent("closer")) = Sequence(s) - startSeq[s]
    /\ \A e \in EntriesOf(s) : e.Stream = s
    /\ \A t \in Sinks \ {s} : EntriesOf(t) = {}
    /\ \A i \in DOMAIN buf[s] : i > 1 => buf[s][i - 1].Sequence < buf[s][i].Sequence
    /\ \A p \in FlushCallers : \A i \in DOMAIN batch[p] :
         i > 1 => batch[p][i - 1].Sequence < batch[p][i].Sequence

\* C21, the step: the reader's append of the line it has observed advances
\* Sequence() by one and appends one entry with the new number, the sink's
\* stream and the line; no other step changes Sequence(), and the buffer
\* otherwise only changes by being detached whole.
C21_AppendStepOnly ==
  \A s \in Sinks : Open(s) =>
    IF readerPc = "append" /\ readerPc' = "scan"
    THEN /\ Sequence(s)' = Sequence(s) + 1
         /\ buf'[s] = Append(buf[s], LogEntry(Sequence(s) + 1, s, line))
    ELSE /\ Sequence(s)' = Sequence(s)
         /\ buf'[s] = buf[s] \/ buf'[s] = <<>>

\* C21: within a sink constructed with start sequence s, the i-th line the
\* reader observes becomes exactly one entry numbered s + i and tagged with
\* the sink's stream; Sequence() is s plus the lines observed and never
\* decreases; entries enter the buffer in increasing sequence order.
C21_SequenceFollowsLines == []C21_OneEntryPerLine /\ [][C21_AppendStepOnly]_vars

\* C21 witness: a sink started at 3 has observed two lines; entry 4 was handed
\* to a call and entry 5 is in the buffer.
C21_Witness ==
  \E s \in Sinks :
    /\ Open(s) /\ startSeq[s] = 3 /\ Sequence(s) = 5
    /\ Handed(s) = {4}
    /\ Len(buf[s]) = 1 /\ buf[s][1] = LogEntry(5, s, <<"x">>)


\* C22, the order: Close has closed the write side before it waits, the line
\* reader has seen end of input and terminated before the timer is stopped,
\* and the final flush runs only after both.
C22_CloseOrder ==
  /\ closerPc \in {"wait", "stop", "flush", "returned"} => pwClosed
  /\ closerPc \in {"stop", "flush", "returned"} => done /\ readerPc = "done"
  /\ closerPc \in {"flush", "returned"} => tickStopped
  /\ tickStopped => done /\ pwClosed
  /\ flushPc["closer"] # "idle" => closerPc = "flush" /\ tickStopped /\ done

\* C22, after Close: once Close has returned no step creates an entry or
\* changes a sequence number, and a step of Write is a return with an error.
C22_AfterCloseStep ==
  closerPc = "returned" =>
    /\ seq' = seq
    /\ \A s \in Sinks : buf'[s] = buf[s] \/ buf'[s] = <<>>
    /\ (nWrites' # nWrites \/ prodPc' # prodPc)
         => writeErrs' = writeErrs + 1 /\ prodPc' = "idle" /\ pipe' = <<>>

\* C22: Close closes the write side, waits for the line reader to observe
\* end of input and terminate, stops the flush timer and only then makes the
\* final flush; after Close has returned a Write returns an error, creates no
\* entry and leaves the sequence number unchanged.
C22_CloseStepsInOrder == []C22_CloseOrder /\ [][C22_AfterCloseStep]_vars

\* C22 witness: Close has returned on a sink that had created one entry, and
\* the other Write was refused.
C22_Witness ==
  /\ closerPc = "returned"
  /\ nWrites = 2 /\ writeErrs = 1
  /\ \E s \in Sinks : Open(s) /\ Sequence(s) = startSeq[s] + 1


\* C23: an entry handed to SendLogs carries its line unchanged when the line
\* has at most 4096 bytes, and otherwise the line's first 4096 bytes followed
\* by the marker "... (truncated)"; its content is never longer than 4096
\* bytes plus the marker. (line is the line the entry was created from.)
C23_TruncatedDelivery ==
  \A j \in DOMAIN sent : \A i \in DOMAIN sent[j].entries :
    LET c == sent[j].entries[i].Content IN
      /\ Len(line) <= 4096 => c = line
      /\ Len(line) > 4096 =>
           /\ SubSeq(c, 1, 4096) = SubSeq(line, 1, 4096)
           /\ SubSeq(c, 4097, Len(c)) = TruncMarker
      /\ Len(c) <= 4096 + Len(TruncMarker)

\* C23 witness: a line longer than 4097 bytes was handed over as 4096 bytes
\* and the marker.
C23_Witness ==
  /\ Len(line) > 4097
  /\ Len(sent) = 1
  /\ Len(sent[1].entries[1].Content) = 4096 + 15


\* The first n changes of a plan whose action list is exactly <<a>>, and
\* those whose action list has both create and delete among its elements.
ExactlyIn(q, n, a) == {k \in 1..n : q[k] = <<a>>}

ReplacedIn(q, n) ==
  {k \in 1..n : /\ \E j \in DOMAIN q[k] : q[k][j] = ActCreate
                /\ \E j \in DOMAIN q[k] : q[k][j] = ActDelete}

\* C24: after the first n changes of a structured plan, add is the number of
\* changes that are exactly [create] plus those holding both create and
\* delete, change the number that are exactly [update], destroy the number
\* that are exactly [delete] plus those holding both; other action lists
\* count nothing. The plan [create, create, update, delete, {delete,create}]
\* gives add 3, change 1, destroy 2.
C24_CountsByActionList ==
  parse.fn = "parseResourceCounts" /\ parse.json = "plan" =>
    LET q == parse.plan
        n == parse.i
        r == parse.result
    IN /\ r.ResourcesToAdd =
            Cardinality(ExactlyIn(q, n, ActCreate)) + Cardinality(ReplacedIn(q, n))
       /\ r.ResourcesToChange = Cardinality(ExactlyIn(q, n, ActUpdate))
       /\ r.ResourcesToDestroy =
            Cardinality(ExactlyIn(q, n, ActDelete)) + Cardinality(ReplacedIn(q, n))
       /\ parse.pc = "done" => n = Len(q)
       /\ (parse.pc = "done" /\ q = TestPlan) =>
            r = [ResourcesToAdd |-> 3, ResourcesToChange |-> 1,
                 ResourcesToDestroy |-> 2]

\* C24 witness: parseResourceCounts has returned on the plan of the test with
\* add 3, change 1, destroy 2.
C24_Witness ==
  /\ parse.fn = "parseResourceCounts" /\ parse.pc = "done"
  /\ parse.plan = TestPlan
  /\ parse.result.ResourcesToAdd = 3 /\ parse.result.ResourcesToDestroy = 2


\* The last full summary line of the output (0: there is none).
LastSummary(es) ==
  IF \E i \in DOMAIN es : es[i].kind = "summary"
  THEN CHOOSE i \in DOMAIN es :
         es[i].kind = "summary" /\ \A j \in DOMAIN es : es[j].kind = "summary" => j <= i
  ELSE 0

\* C25: for an output holding at least one line 'N added, M changed,
\* K destroyed', the counters parseSummaryCounts leaves are the N, M, K of the
\* last such line, whatever text precedes or follows it. (Violated: a later
\* 'K destroyed' alone replaces the destroy counter.)
C25_LastSummaryLineWins ==
  (parse.fn = "parseSummaryCounts" /\ parse.pc = "done"
     /\ LastSummary(parse.pieces) # 0) =>
    LET e == parse.pieces[LastSummary(parse.pieces)] IN
      parse.result = [ResourcesToAdd |-> e.n, ResourcesToChange |-> e.m,
                      ResourcesToDestroy |-> e.k]


\* C26: RunManaged returns nil only if a 'succeeded' report was attempted; it
\* returns an error whenever the run has ended without reaching succeeded;
\* and a run that returns an error never attempted a 'succeeded' report.
\* (Violated: for an unsupported operation the run ends in a panic, not in a
\* returned error.)
C26_ErrorUnlessSucceeded ==
  pc = "done" =>
    /\ retval = "nil" => StatusReported("succeeded")
    /\ ~StatusReported("succeeded") => retval = "error"
    /\ retval = "error" => ~StatusReported("succeeded")


\* C27: every line a child of init, plan, apply or destroy writes to stdout
\* reaches the hosting process's standard output and the stdout sink, and
\* every line it writes to stderr reaches the hosting process's standard
\* error and the stderr sink. (Violated: only init's stdout goes to
\* os.Stdout; every other stream goes to a buffer and the sink.)
C27_OutputTeedToHostAndSink ==
  \A i \in DOMAIN hostOut :
    hostOut[i].cmd \in TeedCmds =>
      /\ hostOut[i].Sequence \in Created(hostOut[i].stream)
      /\ hostOut[i].stream = "stdout" => hostOut[i].writer = "os.Stdout"
      /\ hostOut[i].stream = "stderr" => hostOut[i].writer = "os.Stderr"


\* The phase a statement of RunManaged belongs to: 1 fetching-config,
\* 2 resolving-tool, 3 preparing-source, 4 writing-inputs, 5 starting-watchers,
\* 6 initializing, 7 executing, 8 reporting; 9 is the return with its
\* deferred calls.
PhaseNames ==
  <<"fetching-config", "resolving-tool", "preparing-source", "writing-inputs",
    "starting-watchers", "initializing", "executing", "reporting">>

PhaseEnd == Len(PhaseNames) + 1

Phase(p) ==
  CASE p = "fetchConfig" -> 1
    [] p \in {"reportRunning", "resolveVersion"} -> 2
    [] p = "prepare" -> 3
    [] p \in {"setEnv", "writeTfvars"} -> 4
    [] p \in {"startWatcher", "newStdout", "newStderr"} -> 5
    [] p \in {"init", "initRun", "initRet"} -> 6
    [] p \in {"run", "mainRun", "mainRet", "secRun", "secRet"} -> 7
    [] p \in {"runRet", "reportOutputs"} -> 8
    [] OTHER -> PhaseEnd

\* C28, the step: a step stays in its phase, enters the next one, or leaves
\* for the return; the next phase is entered only while nothing has failed;
\* the init child is started only with the config fetched, the inputs
\* written and no failure; the main child is started only from the executing
\* phase, which is entered only when init's cmd.Run returned nil (exit 0);
\* 'succeeded' is reported only when the operation returned no error.
C28_PhaseStep ==
  /\ Phase(pc') \in {Phase(pc), Phase(pc) + 1, PhaseEnd}
  /\ Phase(pc) = PhaseEnd => Phase(pc') = PhaseEnd
  /\ (Phase(pc') = Phase(pc) + 1 /\ Phase(pc') # PhaseEnd)
       => retval' = "none" /\ ~StatusReported("failed")'
  /\ (child' = "init" /\ child # "init")
       => /\ pc = "init" /\ cfg.op # "none"
          /\ Exists(fs, TfvarsPath(workDir))
          /\ retval = "none" /\ ~StatusReported("failed")
  /\ (child' \in Operations /\ child = "none")
       => pc = "run" /\ retval = "none" /\ ~StatusReported("failed")
  /\ (pc # "run" /\ pc' = "run")
       => pc = "initRet" /\ cmdRes.err = "none" /\ cmdRes.code = 0
  /\ (StatusReported("succeeded")' /\ ~StatusReported("succeeded"))
       => pc = "runRet" /\ ~runErr

\* C28: RunManaged passes through fetching-config, resolving-tool,
\* preparing-source, writing-inputs, starting-watchers, initializing,
\* executing, reporting in this order, each phase entered at most once and
\* only if every earlier phase succeeded; init is never started after a
\* failed fetch, resolution, preparation or input writing, and the plan,
\* apply or destroy child is never started unless init exited zero.
C28_PhasesInOrder == [][C28_PhaseStep]_vars

\* C28 witness: an apply went through every phase and returned nil after the
\* 'succeeded' and outputs reports.
C28_Witness ==
  /\ pc = "done" /\ retval = "nil" /\ cfg.op = "apply"
  /\ Len(statusLog) = 3
  /\ statusLog[1].status = "running"
  /\ statusLog[2].status = "succeeded"
  /\ statusLog[3].kind = "outputs"


\* C29, the state: when RunManaged has ended after setting a variable, the
\* variable is unset; while no variable was set (no string value, or a
\* failed os.Setenv) the environment is what it was at the call.
C29_UnsetAtReturn ==
  /\ (pc = "done" /\ envVarKeys # << >>) => env = "unset"
  /\ envVarKeys = << >> => env = env0
  /\ envVarKeys # << >> => cfg.env = "string" /\ env \in {"new", "unset"}

\* C29, the step: the environment changes only by RunManaged setting a
\* string value, which it remembers, and by the deferred loop unsetting a
\* remembered variable.
C29_EnvStep ==
  env' # env =>
    \/ /\ pc = "setEnv" /\ cfg.env = "string"
       /\ env' = "new" /\ envVarKeys' = <<EnvKey>>
    \/ /\ pc = "unwind" /\ envVarKeys = <<EnvKey>>
       /\ env' = "unset"

\* C29: on every exit path after the environment variables were set (failed
\* input writing, failed init, failed operation, cancellation, success) every
\* variable RunManaged set is unset when it returns; a variable whose value is
\* not a string or whose os.Setenv failed is never set and never unset.
C29_EnvRestored == []C29_UnsetAtReturn /\ [][C29_EnvStep]_vars

\* C29 witness: a cancelled run that had set the variable has returned an
\* error, and the variable is unset.
C29_Witness ==
  /\ pc = "done" /\ retval = "error" /\ wCancelCalls = 1
  /\ envVarKeys = <<EnvKey>> /\ env = "unset"
  /\ CleanupDone(<<"unsetEnv">>)


\* The file system without path p.
Others(f, p) == [q \in DOMAIN f \ {p} |-> f[q]]

\* C30, the state: once the overwrite is done the path, while it exists,
\* holds as many zero bytes as the file had, so not what it held unless that
\* was zeros already; after SecureDelete has returned the path does not
\* exist; before the overwrite the file is as it was at the call.
C30_ErasedState ==
  LET path == TfvarsPath(workDir)
      L == Len(cfg.data)
  IN /\ (CleanupDone(<<"overwrite">>) /\ Exists(fs, path))
          => /\ fs[path] = Zeros(L) /\ Len(fs[path]) = L
             /\ cfg.data # Zeros(L) => fs[path] # cfg.data
             /\ pc = "secureRemove"
     /\ CleanupDone(<<"remove">>) => CleanupDone(<<"overwrite">>)
     /\ pc = "done" => ~Exists(fs, path)
     /\ (~CleanupDone(<<"overwrite">>) /\ Exists(fs, path))
          => fs[path] = cfg.data /\ pc = "unwind" /\ defers # << >>

\* C30, the step: the file system changes only by the overwrite of the
\* existing file and then by its removal, and no other path changes; on a
\* path that does not exist SecureDelete changes nothing.
C30_EraseStep ==
  LET path == TfvarsPath(workDir)
  IN /\ Others(fs', path) = Others(fs, path)
     /\ ~Exists(fs, path) => fs' = fs /\ cleanupLog' = cleanupLog
     /\ (Exists(fs, path) /\ fs' # fs)
          => \/ /\ ~CleanupDone(<<"overwrite">>)
                /\ Exists(fs', path) /\ fs'[path] = Zeros(Len(fs[path]))
             \/ /\ CleanupDone(<<"overwrite">>) /\ ~CleanupDone(<<"remove">>)
                /\ ~Exists(fs', path)

\* C30: SecureDelete on an existing file of length L first replaces its
\* content with L zero bytes and then removes it: after it returns the path
\* does not exist, and after the overwrite the path never holds the prior
\* content; on a path that does not exist it does nothing.
C30_SecureDeleteErases == []C30_ErasedState /\ [][C30_EraseStep]_vars

\* C30 witness: SecureDelete has returned after overwriting and then
\* removing a file of MaxFileLen bytes, none of them zero, beside a sibling
\* file that is still there.
C30_Witness ==
  /\ pc = "done" /\ Len(cfg.data) = MaxFileLen
  /\ \A i \in DOMAIN cfg.data : cfg.data[i] # 0
  /\ cleanupLog = << <<"overwrite">>, <<"remove">> >>
  /\ ~Exists(fs, TfvarsPath(workDir))
  /\ Exists(fs, PlanFile(workDir))
  /\ retval = "none"


\* The watcher and the tracked sink's line reader and flush loop have ended.
TasksEnded ==
  /\ wPc = "returned"
  /\ tracked \in Sinks => readerPc = "done" /\ loopPc = "returned"

\* C31: once RunManaged has reached a return statement after starting the
\* watcher and the sinks, the Cancellation Watcher and the sink's line reader
\* and flush loop all eventually terminate; and the watcher has returned
\* whenever it has fired the cancellation signal.
C31_TasksTerminate ==
  /\ (pc = "unwind") ~> TasksEnded
  /\ [](wCancelCalls > 0 => wPc = "returned")

\* C31 witness: RunManaged has returned an error from a run whose child
\* wrote a line to the tracked stderr sink, the flush loop flushed on a
\* tick, and the three tasks have ended.
C31_Witness ==
  /\ pc = "done" /\ tracked = "stderr" /\ retval = "error"
  /\ nWrites > 0 /\ seq[tracked] > 0 /\ nTicks > 0
  /\ \E i \in DOMAIN sent : sent[i].by = "flushLoop"
  /\ TasksEnded


\* Where RunManaged is between the start of exec.Init and the return of
\* exec.Run.
ExecPcs == {"init", "initRun", "initRet", "run", "mainRun", "mainRet", "secRun", "secRet"}

\* C32: when exec.Init or exec.Run returns after the watcher has fired the
\* cancellation signal, it returns an error: a failed init is reported
\* 'failed' and RunManaged returns an error, and exec.Run's error makes
\* RunManaged report 'failed', so that such a run is never reported
\* 'succeeded'.
C32_CancelMeansFailed ==
  [][(pc \in ExecPcs /\ pc' \notin ExecPcs /\ wCancelCalls > 0)
       => IF pc' = "runRet"
          THEN runErr'
          ELSE /\ retval' = "error"
               /\ \E i \in DOMAIN statusLog' : statusLog'[i].status = "failed"]_vars


\* C33: every Write to a sink that has not been closed eventually returns,
\* whatever it carries (complete lines, parts of lines, lines longer than
\* the reader's limit), and the line reader ends only at end of input.
C33_WriteReturns ==
  /\ (prodPc = "writing") ~> (prodPc = "idle" \/ pwClosed)
  /\ [](readerPc = "done" => pwClosed)


\* C34: for an operation outside plan, apply and destroy, exec.Run returns
\* no result and an error, and RunManaged then reports 'failed' with exit
\* code 1 and returns an error; it does not end in a panic.
C34_UnsupportedReported ==
  cfg.op \notin Operations =>
    /\ pc = "runRet" => result.nil /\ runErr
    /\ (pc \in {"unwind", "done"} /\ runErr)
         => /\ retval = "error"
            /\ \E i \in DOMAIN statusLog :
                 statusLog[i].status = "failed" /\ statusLog[i].code = 1


\* C35: the SendLogs calls of a sink are made in increasing sequence order:
\* every entry of an earlier call has a smaller sequence number than every
\* entry of a later call.
C35_CallsInSequenceOrder ==
  \A i, j \in DOMAIN sent :
    (i < j /\ sent[i].stream = sent[j].stream) =>
      \A m \in DOMAIN sent[i].entries, n \in DOMAIN sent[j].entries :
        sent[i].entries[m].Sequence < sent[j].entries[n].Sequence


\* The positions of the terminal status reports attempted so far.
TerminalReports ==
  {i \in DOMAIN statusLog : statusLog[i].status \in {"succeeded", "failed"}}

\* C36: in every execution of RunManaged at most one terminal status report
\* ('succeeded' or 'failed') is attempted; a terminal report is attempted
\* only after the 'running' report was attempted; and the outputs report is
\* attempted only after a 'succeeded' report, of an apply operation.
C36_OneTerminalReport ==
  /\ Cardinality(TerminalReports) <= 1
  /\ \A i \in TerminalReports :
       \E j \in 1..(i - 1) : statusLog[j].status = "running"
  /\ \A i \in DOMAIN statusLog :
       statusLog[i].kind = "outputs" =>
         /\ cfg.op = "apply"
         /\ \E j \in 1..(i - 1) : statusLog[j].status = "succeeded"

\* C36 witness: an apply has returned nil after the reports 'running',
\* 'succeeded' and the outputs were attempted in that order, the 'running'
\* and 'succeeded' reports having failed in the transport.
C36_Witness ==
  /\ pc = "done" /\ retval = "nil" /\ cfg.op = "apply"
  /\ Len(statusLog) = Len(<<"running", "succeeded", "outputs">>)
  /\ statusLog[1].status = "running" /\ ~statusLog[1].ok
  /\ statusLog[2].status = "succeeded" /\ ~statusLog[2].ok
  /\ statusLog[3].kind = "outputs"


\* C37: every 'failed' status report RunManaged makes carries a non-zero
\* exit code.
C37_FailedCodeNonZero ==
  \A i \in DOMAIN statusLog :
    statusLog[i].status = "failed" => statusLog[i].code # 0


\* C38: with or without sinks attached, Executor.Init and Executor.Run
\* terminate (Init returns an error, or Run returns), and what they return is
\* fixed by what the child processes did: Init fails exactly when its child
\* did, and the result and error of Run follow from the main child's exit.
C38_SameWithOrWithoutSinks ==
  /\ <>(pc \in {"runRet", "unwind"})
  /\ [][/\ (pc = "initRet" /\ pc' # pc)
             => (pc' = "run") = ~InitFailed(cmdRes)
        /\ (pc = "mainRet" /\ pc' # pc)
             => /\ result'.ExitCode = ExitCodeOf(cmdRes)
                /\ runErr' = MainErr(cfg.op, cmdRes)]_vars


\* cmd.Run of the main plan child returned exit code 0 or 2.
GoodPlanExit(r) == r.err = "none" \/ (r.err = "exit" /\ r.code = 2)

\* C39: for plan, the secondary `show` invocation is made only when the main
\* child exited with code 0 or 2 and the plan file exists; after a plan that
\* failed (another exit code, or no start) none is made, and the result holds
\* no structured plan and zero resource deltas.
C39_ShowOnlyAfterGoodPlan ==
  [][(pc = "mainRet" /\ cfg.op = "plan" /\ pc' # pc)
       => /\ pc' \in {"secRun", "secRet"}
               => Exists(fs, PlanFile(workDir)) /\ GoodPlanExit(cmdRes)
          /\ ~GoodPlanExit(cmdRes)
               => /\ pc' = "runRet"
                  /\ result'.PlanJSON = "" /\ result'.Deltas = "zero"]_vars

\* C40: RunManaged leaves the process environment as it found it: when it
\* has returned, EnvKey has the value (or absence) it had when RunManaged was
\* called, also when the fetched configuration sets that key.
C40_EnvironmentAsFound == pc = "done" => env = env0

=============================================================================
